---- MODULE Spec2Model ----
(***************************************************************************)
(* Twicks inventory / sales tracker (src/twicks.js).                       *)
(*                                                                         *)
(* Every handler is an async function; it is cut at each Storage call.     *)
(* One action = the synchronous code since the previous await plus the     *)
(* Storage call that ends it.                                              *)
(*                                                                         *)
(* Spec        : the ledger pipeline (bought -> for sale -> sold -> paid)  *)
(*               from an empty store, handlers run one after the other.    *)
(* SpecRace    : the stage-move and payment handlers over a store with two *)
(*               items, up to MaxTasks handlers in flight at a time.       *)
(* SpecStorage : Storage.load / Storage.save over the two storage tiers    *)
(*               (localStorage, IndexedDB) with the auto-backup hooks.     *)
(* SpecRestore : Drive backup and restore with the sale and payment        *)
(*               handlers, one after the other.                            *)
(* SpecStale   : the stage-move and payment handlers, one after the other, *)
(*               clicked on buttons of a page that is out of date.         *)
(* SpecParties : the Manage Sellers and Manage Buyers dialogs.             *)
(* SpecCash    : the Sold page (payment, shipping fee, Add to Cash) and    *)
(*               the Cash page, handlers one after the other.              *)
(* SpecAuto    : AutoBackup (timers, forceNow, sign-in) with Add Cash      *)
(*               handlers overlapping the backup in flight.                *)
(* FairAuto    : SpecAuto with the steps of a backup in flight taken.      *)
(* SpecApi     : the two deployments of the backup endpoint                *)
(*               (src/api/twicks-backup.js, src/unnamed/part_000).         *)
(*                                                                         *)
(* Record fields that no handler reads back (name, createdAt, soldAt) are  *)
(* left out.  `image` is kept: it is the uploaded file's URL, distinct per *)
(* upload, and it is copied unchanged through every stage.                 *)
(***************************************************************************)
EXTENDS Integers, Sequences, FiniteSets, Bags, TLC

\* ---- bounds ----
MaxTasks == 2      \* handlers in flight at once
MaxItems == 2      \* images uploaded (items taken in + listings added directly)
MaxUid == 4        \* values Util.uid hands out
MaxRuns == 5       \* handler runs in a behaviour with overlapping handlers

\* ---- input domains ----
NaN == -1                      \* parseFloat of an empty / non-numeric input
SellerNames == {"A", "B"}
BuyerNames == {"X"}
BuyInputs == {100}
ShipInputs == {10}
SellInputs == {NaN, 150}
PriceInputs == {120}

VARIABLES
    bought,      \* KEYS.BOUGHT   : sequence of inventory items
    forsale,     \* KEYS.FORSALE  : sequence of listings
    sold,        \* KEYS.SOLD     : sequence of sold records
    cash,        \* KEYS.CASH
    sellers,     \* KEYS.SELLERS
    buyers,      \* KEYS.BUYERS
    shipping,    \* KEYS.SHIP_OUT_MAP
    lastSeller,  \* KEYS.SELLER_LAST ("" when absent)
    lastBuyer,   \* KEYS.BUYER_LAST  ("" when absent)
    dirty,       \* AutoBackup.dirty
    tasks,       \* bag of handlers in flight, each with its position and locals
    nextUid,     \* next value of Util.uid
    nextImg,     \* next uploaded image
    cap,         \* handlers the event loop lets overlap
    runs,        \* handler runs started, where the specification counts them
    intake,      \* history: intake[g] = the item taken in with image g, and the sell price typed
    trail,       \* history: trail[g] = the stage moves applied to image g
    ls,          \* localStorage: key -> entry (text, or no entry)
    idbData,     \* IndexedDB object store: key -> value, or undefined
    idb,         \* Storage's cached database handle: "none" or "open"
    call,        \* the Storage.load / Storage.save call in progress, its position and locals
    marks,       \* AutoBackup.markDirty invocations made by the current call
    ret,         \* what the last Storage.load returned
    drive,       \* the backup files in Google Drive, newest first
    running,        \* AutoBackup.running
    lastSerialized, \* AutoBackup.lastSerialized (<<>> for "")
    accessToken,    \* Drive's accessToken: TRUE when a token is held
    autoFile,       \* twicks_autobackup.json in Google Drive (<<>> when there is none)
    api             \* the two deployments of the backup endpoint: table and last response

vars == <<bought, forsale, sold, cash, sellers, buyers, shipping,
          lastSeller, lastBuyer, dirty, tasks, nextUid, nextImg, cap, runs, intake, trail,
          ls, idbData, idb, call, marks, ret, drive,
          running, lastSerialized, accessToken, autoFile, api>>
ledger == <<bought, forsale, sold, cash, sellers, buyers, shipping,
            lastSeller, lastBuyer, tasks, nextUid, nextImg, cap, runs, intake, trail, drive,
            running, lastSerialized, accessToken, autoFile, api>>
stVars == <<ls, idbData, idb, call, marks, ret,
            running, lastSerialized, accessToken, autoFile, api>>

\* ---- Array helpers ----
\* variant of findIndex without a usable "absent" result: -1 handed to splice
\* counts from the end of the array
RECURSIVE findIndexOrLast(_, _, _)
findIndexOrLast(s, id, i) ==
    IF i > Len(s) THEN Len(s)
    ELSE IF s[i].id = id THEN i ELSE findIndexOrLast(s, id, i + 1)

RECURSIVE findIndex(_, _, _)
findIndex(s, id, i) ==
    IF i > Len(s) THEN 0
    ELSE IF s[i].id = id THEN i ELSE findIndex(s, id, i + 1)

splice(s, i) == SubSeq(s, 1, i - 1) \o SubSeq(s, i + 1, Len(s))

unshift(s, x) == <<x>> \o s

Range(s) == {s[i] : i \in 1..Len(s)}

\* ---- tasks ----
NoRec == [id |-> 0]

Task(op, pc, id, who, a, b, it) ==
    [op |-> op, pc |-> pc, id |-> id, who |-> who, a |-> a, b |-> b, it |-> it]

\* cap = 1: handlers run one after the other; runs = -1: handler runs are not counted
Spawn(t) == /\ BagCardinality(tasks) < cap
            /\ runs < MaxRuns
            /\ runs' = IF runs < 0 THEN runs ELSE runs + 1
            /\ tasks' = tasks (+) SetToBag({t})
            /\ UNCHANGED <<stVars, drive>>

Done(t) == tasks' = tasks (-) SetToBag({t}) /\ UNCHANGED <<runs, stVars, drive>>

Goto(t, pc, a, b, it) ==
    /\ tasks' = (tasks (-) SetToBag({t}))
                (+) SetToBag({[t EXCEPT !.pc = pc, !.a = a, !.b = b, !.it = it]})
    /\ UNCHANGED <<runs, stVars, drive>>

\* uid values a running task will still ask for
UidNeed(t) ==
    CASE t.op = "list" /\ findIndex(t.a, t.id, 1) # 0 /\ t.pc \in {"saveBought", "loadForSale", "saveForSale"} -> 1
      [] t.op = "bulk" /\ t.pc \in {"loadForSale", "saveBought"} ->
            Len(SelectSeq(t.a, LAMBDA i : (IF i.seller = "" THEN "(No seller)" ELSE i.seller) = t.who))
      [] t.op = "addfs" -> 1
      [] t.op \in {"cashadd", "cashded", "tocash"} -> 1
      [] OTHER -> 0

RECURSIVE SumNeed(_)
SumNeed(ts) ==
    IF ts = {} THEN 0
    ELSE LET t == CHOOSE x \in ts : TRUE IN
         CopiesIn(t, tasks) * UidNeed(t) + SumNeed(ts \ {t})

UidRoom(n) == nextUid + SumNeed(BagToSet(tasks)) + n <= MaxUid + 1

At(t, op, pc) == t.op = op /\ t.pc = pc

\* A click carries the id its button was rendered with.  A page is rendered
\* from the store when a handler finishes, so a button is there for every
\* record of the collection, and the button a running handler was started
\* from is still there (double click).
IdsOf(coll) == {r.id : r \in Range(coll)}
Shown(coll, ops, id) ==
    id \in IdsOf(coll) \/ \E t \in BagToSet(tasks) : t.op \in ops /\ t.id = id
ShownGroup(names, op, who) ==
    who \in names \/ \E t \in BagToSet(tasks) : t.op = op /\ t.who = who

\* list.reduce((s, i) => s + Number(i.price || 0), 0)
RECURSIVE SumPrice(_)
SumPrice(list) == IF list = <<>> THEN 0 ELSE Head(list).price + SumPrice(Tail(list))

\* items.forEach(i => totals[i.source] += Number(i.amount || 0))
RECURSIVE SumAmount(_)
SumAmount(items) == IF items = <<>> THEN 0 ELSE Head(items).amount + SumAmount(Tail(items))

\* ---- derived values ----
Null == -2                     \* a field that is null / undefined
bucket(i) == IF i.seller = "" THEN "(No seller)" ELSE i.seller

\* Inventory.getSellers
getSellers == Range(sellers) \cup {i.seller : i \in {x \in Range(bought) : x.seller # ""}}

\* ForSale.getBuyers (no handler gives a listing a buyer field)
getBuyers == (Range(buyers) \cup {i.buyer : i \in Range(sold)}) \ {""}

\* new Set(arr).add(name) -> Array.from
setAdd(arr, name) == IF name \in Range(arr) THEN arr ELSE Append(arr, name)

\* the item object built by the #addBoughtBtn handler
newItem(id, seller, buy, ship, sell, image) ==
    [id |-> id, seller |-> seller, buy |-> buy,
     ship |-> IF ship = NaN THEN 0 ELSE ship,
     sell |-> IF sell = NaN THEN buy ELSE sell,
     image |-> image]

\* the listing object built by .list-for-sale and .seller-list
priceDefault(item) == IF item.sell # Null THEN item.sell ELSE item.buy + item.ship

\* variants of newListing: one that leaves the inbound shipping out of the cost
\* basis, one that reuses the item's id
newListing_buyOnly(id, item) ==
    [id |-> id, price |-> priceDefault(item), buy |-> item.buy,
     ship_in |-> item.ship, seller |-> item.seller, image |-> item.image]

newListing_sameId(id, item) ==
    [id |-> item.id, price |-> priceDefault(item), buy |-> item.buy + item.ship,
     ship_in |-> item.ship, seller |-> item.seller, image |-> item.image]

newListing(id, item) ==
    [id |-> id, price |-> priceDefault(item), buy |-> item.buy + item.ship,
     ship_in |-> item.ship, seller |-> item.seller, image |-> item.image]

\* the listing object built by #addForSaleBtn
newStandalone(id, price, image) ==
    [id |-> id, price |-> price, image |-> image, buy |-> 0, seller |-> ""]

\* item.buyer = ...; item.status = "Pending" on the spliced listing
soldFrom(item, buyer) ==
    [buyer |-> IF buyer = "" THEN "Unknown" ELSE buyer, status |-> "Pending"] @@ item

statusOf(i) == i.status

\* variant of setPaid that writes the other status
setPending(s, idx) == [s EXCEPT ![idx].status = "Pending"]

\* sold[idx].status = "Paid" in .mark-paid
setPaid(s, idx) == [s EXCEPT ![idx].status = "Paid"]
buyerOf(i) == IF i.buyer = "" THEN "Unknown" ELSE i.buyer

\* Sold.render (twicks.js 1924-1927, 1954-1955, 2004-2006, 2022): which of the
\* two payment buttons a buyer block shows
groupOf(b) == SelectSeq(sold, LAMBDA i : buyerOf(i) = b)
hasPending(b) == \E i \in Range(groupOf(b)) : statusOf(i) # "Paid"
multi(b) == Len(groupOf(b)) > 1
PaidButton(id) ==
    \/ \E i \in Range(sold) :
          i.id = id /\ statusOf(i) # "Paid" /\ ~(multi(buyerOf(i)) /\ hasPending(buyerOf(i)))
    \/ \E t \in BagToSet(tasks) : t.op = "paid" /\ t.id = id
AllPaidButton(b) ==
    \/ multi(b) /\ hasPending(b)
    \/ \E t \in BagToSet(tasks) : t.op = "paidall" /\ t.who = b

\* variant of payAll that ignores whose record it is
payEveryone(s, buyer) == [i \in 1..Len(s) |-> [s[i] EXCEPT !.status = "Paid"]]

\* sold.forEach(it => { if ((it.buyer || "Unknown") === buyer &&
\* (it.status || "Pending") !== "Paid") it.status = "Paid" }) in .mark-all-paid
payAll(s, buyer) ==
    [i \in 1..Len(s) |->
        IF buyerOf(s[i]) = buyer /\ statusOf(s[i]) # "Paid"
        THEN [s[i] EXCEPT !.status = "Paid"] ELSE s[i]]

\* toMove.forEach(it => listings.unshift({id: Util.uid(), ...}))
RECURSIVE unshiftAll(_, _, _)
unshiftAll(listings, toMove, uid) ==
    IF toMove = <<>> THEN listings
    ELSE unshiftAll(unshift(listings, newListing(uid, Head(toMove))), Tail(toMove), uid + 1)

\* history of the stage moves applied to the cards with these images
Moved(imgs, op) ==
    [g \in DOMAIN trail |-> IF g \in imgs THEN Append(trail[g], op) ELSE trail[g]]

\* ---- Inventory: #addBoughtBtn (twicks.js 1310-1366) ----
AddBought_Load(sel, buy, ship, sell) ==
    LET chosenSeller == IF sel # "" THEN sel ELSE lastSeller IN
    /\ chosenSeller # ""
    /\ buy # NaN
    /\ nextImg <= MaxItems
    /\ UidRoom(1)
    /\ Spawn(Task("addbought", "saveBought", 0, chosenSeller, bought, <<>>,
                  newItem(nextUid, chosenSeller, buy, ship, sell, nextImg)))
    /\ nextUid' = nextUid + 1
    /\ nextImg' = nextImg + 1
    /\ intake' = Append(intake, [typedSell |-> sell] @@ newItem(nextUid, chosenSeller, buy, ship, sell, nextImg))
    /\ trail' = Append(trail, <<>>)
    /\ UNCHANGED <<bought, forsale, sold, cash, sellers, buyers, shipping,
                   lastSeller, lastBuyer, dirty, cap>>

AddBought_Save(t) ==
    /\ At(t, "addbought", "saveBought")
    /\ bought' = unshift(t.a, t.it)
    /\ dirty' = TRUE
    /\ Goto(t, "setLast", <<>>, <<>>, NoRec)
    /\ UNCHANGED <<forsale, sold, cash, sellers, buyers, shipping,
                   lastSeller, lastBuyer, nextUid, nextImg, cap, intake, trail>>

AddBought_SetLast(t) ==
    /\ At(t, "addbought", "setLast")
    /\ lastSeller' = t.who
    /\ Done(t)
    /\ UNCHANGED <<bought, forsale, sold, cash, sellers, buyers, shipping,
                   lastBuyer, dirty, nextUid, nextImg, cap, intake, trail>>

\* ---- Inventory: .list-for-sale (twicks.js 1191-1226) ----
ListForSale_Load(id) ==
    /\ UidRoom(IF findIndex(bought, id, 1) # 0 THEN 1 ELSE 0)
    /\ Spawn(Task("list", "saveBought", id, "", bought, <<>>, NoRec))
    /\ UNCHANGED <<bought, forsale, sold, cash, sellers, buyers, shipping,
                   lastSeller, lastBuyer, dirty, nextUid, nextImg, cap, intake, trail>>

ListForSale_SaveBought(t) ==
    /\ At(t, "list", "saveBought")
    /\ LET items == t.a
           idx == findIndex(items, t.id, 1) IN
       IF idx = 0
       THEN /\ Done(t)
            /\ UNCHANGED <<bought, dirty>>
       ELSE /\ bought' = splice(items, idx)
            /\ dirty' = TRUE
            /\ Goto(t, "loadForSale", <<>>, <<>>, items[idx])
    /\ UNCHANGED <<forsale, sold, cash, sellers, buyers, shipping,
                   lastSeller, lastBuyer, nextUid, nextImg, cap, intake, trail>>

ListForSale_LoadForSale(t) ==
    /\ At(t, "list", "loadForSale")
    /\ Goto(t, "saveForSale", <<>>, forsale, t.it)
    /\ UNCHANGED <<bought, forsale, sold, cash, sellers, buyers, shipping,
                   lastSeller, lastBuyer, dirty, nextUid, nextImg, cap, intake, trail>>

ListForSale_SaveForSale(t) ==
    /\ At(t, "list", "saveForSale")
    /\ forsale' = unshift(t.b, newListing(nextUid, t.it))
    /\ nextUid' = nextUid + 1
    /\ dirty' = TRUE
    /\ Done(t)
    /\ trail' = Moved({t.it.image}, "list")
    /\ UNCHANGED <<bought, sold, cash, sellers, buyers, shipping,
                   lastSeller, lastBuyer, nextImg, cap, intake>>

\* ---- Inventory: .delete-item (twicks.js 1228-1245) ----
DeleteItem_Load(id) ==
    /\ Spawn(Task("delitem", "saveBought", id, "", bought, <<>>, NoRec))
    /\ UNCHANGED <<bought, forsale, sold, cash, sellers, buyers, shipping,
                   lastSeller, lastBuyer, dirty, nextUid, nextImg, cap, intake, trail>>

DeleteItem_Save(t) ==
    /\ At(t, "delitem", "saveBought")
    /\ LET idx == findIndex(t.a, t.id, 1) IN
       IF idx = 0
       THEN UNCHANGED <<bought, dirty>>
       ELSE bought' = splice(t.a, idx) /\ dirty' = TRUE
    /\ Done(t)
    /\ UNCHANGED <<forsale, sold, cash, sellers, buyers, shipping,
                   lastSeller, lastBuyer, nextUid, nextImg, cap, intake, trail>>

\* ---- Inventory: .seller-list (twicks.js 1247-1277) ----
Bulk_Load(seller) ==
    /\ UidRoom(Len(SelectSeq(bought, LAMBDA i : bucket(i) = seller)))
    /\ Spawn(Task("bulk", "loadForSale", 0, seller, bought, <<>>, NoRec))
    /\ UNCHANGED <<bought, forsale, sold, cash, sellers, buyers, shipping,
                   lastSeller, lastBuyer, dirty, nextUid, nextImg, cap, intake, trail>>

Bulk_LoadForSale(t) ==
    /\ At(t, "bulk", "loadForSale")
    /\ Goto(t, "saveBought", t.a, forsale, NoRec)
    /\ UNCHANGED <<bought, forsale, sold, cash, sellers, buyers, shipping,
                   lastSeller, lastBuyer, dirty, nextUid, nextImg, cap, intake, trail>>

Bulk_SaveBought(t) ==
    /\ At(t, "bulk", "saveBought")
    /\ LET seller == t.who
           toMove == SelectSeq(t.a, LAMBDA i : bucket(i) = seller)
           remain == SelectSeq(t.a, LAMBDA i : bucket(i) # seller) IN
       /\ bought' = remain
       /\ nextUid' = nextUid + Len(toMove)
       /\ Goto(t, "saveForSale", toMove, unshiftAll(t.b, toMove, nextUid), NoRec)
    /\ dirty' = TRUE
    /\ UNCHANGED <<forsale, sold, cash, sellers, buyers, shipping,
                   lastSeller, lastBuyer, nextImg, cap, intake, trail>>

Bulk_SaveForSale(t) ==
    /\ At(t, "bulk", "saveForSale")
    /\ forsale' = t.b
    /\ dirty' = TRUE
    /\ Done(t)
    /\ trail' = Moved({i.image : i \in Range(t.a)}, "bulk")
    /\ UNCHANGED <<bought, sold, cash, sellers, buyers, shipping,
                   lastSeller, lastBuyer, nextUid, nextImg, cap, intake>>

\* ---- ForSale: #addForSaleBtn (twicks.js 1821-1850) ----
AddForSale_Load(price) ==
    /\ price # NaN
    /\ nextImg <= MaxItems
    /\ UidRoom(1)
    /\ Spawn(Task("addfs", "saveForSale", 0, "", forsale, <<>>,
                  [price |-> price, image |-> nextImg]))
    /\ nextImg' = nextImg + 1
    /\ intake' = Append(intake, NoRec)
    /\ trail' = Append(trail, <<>>)
    /\ UNCHANGED <<bought, forsale, sold, cash, sellers, buyers, shipping,
                   lastSeller, lastBuyer, dirty, nextUid, cap>>

AddForSale_Save(t) ==
    /\ At(t, "addfs", "saveForSale")
    /\ forsale' = unshift(t.a,
                          newStandalone(nextUid, t.it.price, t.it.image))
    /\ nextUid' = nextUid + 1
    /\ dirty' = TRUE
    /\ Done(t)
    /\ UNCHANGED <<bought, sold, cash, sellers, buyers, shipping,
                   lastSeller, lastBuyer, nextImg, cap, intake, trail>>

\* ---- ForSale: .delete-item (twicks.js 1771-1783) ----
DeleteListing_Load(id) ==
    /\ Spawn(Task("delfs", "saveForSale", id, "", forsale, <<>>, NoRec))
    /\ UNCHANGED <<bought, forsale, sold, cash, sellers, buyers, shipping,
                   lastSeller, lastBuyer, dirty, nextUid, nextImg, cap, intake, trail>>

DeleteListing_Save(t) ==
    /\ At(t, "delfs", "saveForSale")
    /\ forsale' = SelectSeq(t.a, LAMBDA x : x.id # t.id)
    /\ dirty' = TRUE
    /\ Done(t)
    /\ UNCHANGED <<bought, sold, cash, sellers, buyers, shipping,
                   lastSeller, lastBuyer, nextUid, nextImg, cap, intake, trail>>

\* ---- ForSale: .mark-sold (twicks.js 1785-1816) ----
\* sel is the value of the buyer <select>, typed the answer to prompt("Buyer name:")
MarkSold_Load(id, sel, typed) ==
    /\ sel \in getBuyers \cup {""}
    /\ sel # "" => typed = ""
    /\ IF sel = "" /\ typed # ""
       THEN Spawn(Task("sold", "saveBuyers", id, typed, buyers, <<>>, NoRec))
       ELSE Spawn(Task("sold", "saveForSale", id,
                       IF sel # "" THEN sel ELSE "Unknown", forsale, <<>>, NoRec))
    /\ UNCHANGED <<bought, forsale, sold, cash, sellers, buyers, shipping,
                   lastSeller, lastBuyer, dirty, nextUid, nextImg, cap, intake, trail>>

\* ForSale.addBuyer (twicks.js 1525-1530)
MarkSold_SaveBuyers(t) ==
    /\ At(t, "sold", "saveBuyers")
    /\ buyers' = setAdd(t.a, t.who)
    /\ dirty' = TRUE
    /\ Goto(t, "loadForSale", <<>>, <<>>, NoRec)
    /\ UNCHANGED <<bought, forsale, sold, cash, sellers, shipping,
                   lastSeller, lastBuyer, nextUid, nextImg, cap, intake, trail>>

MarkSold_LoadForSale(t) ==
    /\ At(t, "sold", "loadForSale")
    /\ lastBuyer' = t.who
    /\ Goto(t, "saveForSale", forsale, <<>>, NoRec)
    /\ UNCHANGED <<bought, forsale, sold, cash, sellers, buyers, shipping,
                   lastSeller, dirty, nextUid, nextImg, cap, intake, trail>>

MarkSold_SaveForSale(t) ==
    /\ At(t, "sold", "saveForSale")
    /\ LET fs == t.a
           i == findIndex(fs, t.id, 1) IN
       IF i = 0
       THEN /\ Done(t)
            /\ UNCHANGED <<forsale, dirty>>
       ELSE /\ forsale' = splice(fs, i)
            /\ dirty' = TRUE
            /\ Goto(t, "loadSold", <<>>, <<>>, soldFrom(fs[i], t.who))
    /\ UNCHANGED <<bought, sold, cash, sellers, buyers, shipping,
                   lastSeller, lastBuyer, nextUid, nextImg, cap, intake, trail>>

MarkSold_LoadSold(t) ==
    /\ At(t, "sold", "loadSold")
    /\ Goto(t, "saveSold", <<>>, sold, t.it)
    /\ UNCHANGED <<bought, forsale, sold, cash, sellers, buyers, shipping,
                   lastSeller, lastBuyer, dirty, nextUid, nextImg, cap, intake, trail>>

MarkSold_SaveSold(t) ==
    /\ At(t, "sold", "saveSold")
    /\ sold' = unshift(t.b, t.it)
    /\ dirty' = TRUE
    /\ Done(t)
    /\ trail' = Moved({t.it.image}, "sold")
    /\ UNCHANGED <<bought, forsale, cash, sellers, buyers, shipping,
                   lastSeller, lastBuyer, nextUid, nextImg, cap, intake>>

\* ---- Sold: .mark-paid (twicks.js 2189-2204) ----
MarkPaid_Load(id) ==
    /\ Spawn(Task("paid", "saveSold", id, "", sold, <<>>, NoRec))
    /\ UNCHANGED <<bought, forsale, sold, cash, sellers, buyers, shipping,
                   lastSeller, lastBuyer, dirty, nextUid, nextImg, cap, intake, trail>>

MarkPaid_Save(t) ==
    /\ At(t, "paid", "saveSold")
    /\ LET idx == findIndex(t.a, t.id, 1) IN
       IF idx = 0
       THEN UNCHANGED <<sold, dirty, trail>>
       ELSE /\ sold' = setPaid(t.a, idx)
            /\ dirty' = TRUE
            /\ trail' = IF statusOf(t.a[idx]) # "Paid"
                        THEN Moved({t.a[idx].image}, "paid") ELSE trail
    /\ Done(t)
    /\ UNCHANGED <<bought, forsale, cash, sellers, buyers, shipping,
                   lastSeller, lastBuyer, nextUid, nextImg, cap, intake>>

\* ---- Sold: .mark-all-paid (twicks.js 2166-2187) ----
MarkAllPaid_Load(buyer) ==
    /\ Spawn(Task("paidall", "saveSold", 0, buyer, sold, <<>>, NoRec))
    /\ UNCHANGED <<bought, forsale, sold, cash, sellers, buyers, shipping,
                   lastSeller, lastBuyer, dirty, nextUid, nextImg, cap, intake, trail>>

MarkAllPaid_Save(t) ==
    /\ At(t, "paidall", "saveSold")
    /\ LET s == t.a
           hit(it) == buyerOf(it) = t.who /\ statusOf(it) # "Paid"
           changed == Len(SelectSeq(s, hit)) IN
       IF changed = 0
       THEN UNCHANGED <<sold, dirty, trail>>
       ELSE /\ sold' = payAll(s, t.who)
            /\ dirty' = TRUE
            /\ trail' = Moved({i.image : i \in Range(SelectSeq(s, hit))}, "paidall")
    /\ Done(t)
    /\ UNCHANGED <<bought, forsale, cash, sellers, buyers, shipping,
                   lastSeller, lastBuyer, nextUid, nextImg, cap, intake>>

\* ---- Sold: .delete-item (twicks.js 2301-2316) ----
DeleteSold_Load(id) ==
    /\ Spawn(Task("delsold", "saveSold", id, "", sold, <<>>, NoRec))
    /\ UNCHANGED <<bought, forsale, sold, cash, sellers, buyers, shipping,
                   lastSeller, lastBuyer, dirty, nextUid, nextImg, cap, intake, trail>>

DeleteSold_Save(t) ==
    /\ At(t, "delsold", "saveSold")
    /\ LET idx == findIndex(t.a, t.id, 1) IN
       IF idx = 0
       THEN UNCHANGED <<sold, dirty>>
       ELSE sold' = splice(t.a, idx) /\ dirty' = TRUE
    /\ Done(t)
    /\ UNCHANGED <<bought, forsale, cash, sellers, buyers, shipping,
                   lastSeller, lastBuyer, nextUid, nextImg, cap, intake, trail>>

\* ---- the ledger pipeline ----
\* ======================= Storage (twicks.js 113-179) =======================
MaxLen == 2
StorageKeys == {"twicks_bought_v1", "twicks_sold_v1"}

\* JavaScript values: arrays (of 1s, up to MaxLen long), null, undefined
arr(v) == [t |-> "array", v |-> v]
null == [t |-> "null", v |-> <<>>]
undefined == [t |-> "undefined", v |-> <<>>]
SyntaxError == [t |-> "SyntaxError", v |-> <<>>]
Arrays == {arr([i \in 1..n |-> 1]) : n \in 0..MaxLen}

\* x ?? d
coalesce(x, d) == IF x.t \in {"null", "undefined"} THEN d ELSE x

\* JSON text is a sequence of tokens
RECURSIVE join(_)
join(v) ==
    IF v = <<>> THEN <<>>
    ELSE IF Len(v) = 1 THEN <<"1">>
    ELSE <<"1", ",">> \o join(Tail(v))

stringify(x) == IF x.t = "array" THEN <<"[">> \o join(x.v) \o <<"]">> ELSE <<"null">>

RECURSIVE elements(_)
elements(toks) ==
    IF toks[1] # "1" THEN SyntaxError
    ELSE IF Len(toks) = 1 THEN arr(<<1>>)
    ELSE IF toks[2] # "," \/ Len(toks) = 2 THEN SyntaxError
    ELSE LET r == elements(SubSeq(toks, 3, Len(toks))) IN
         IF r = SyntaxError THEN r ELSE arr(<<1>> \o r.v)

parse(text) ==
    IF text = <<"null">> THEN null
    ELSE IF Len(text) < 2 \/ text[1] # "[" \/ text[Len(text)] # "]" THEN SyntaxError
    ELSE IF Len(text) = 2 THEN arr(<<>>)
    ELSE elements(SubSeq(text, 2, Len(text) - 1))

\* localStorage entries; text another script of the origin, or the user, can leave there
noEntry == [has |-> FALSE, text |-> <<>>]
entry(text) == [has |-> TRUE, text |-> text]
Foreign == {<<"[", "1">>, <<"null">>, <<>>}

NoCall == [op |-> "none", pc |-> "done", key |-> "", val |-> undefined, fb |-> undefined,
           lsThrew |-> FALSE, parseFailed |-> FALSE, threw |-> FALSE]

StorageIdle ==
    /\ ls = [k \in StorageKeys |-> noEntry]
    /\ idbData = [k \in StorageKeys |-> undefined]
    /\ idb = "none"
    /\ call = NoCall
    /\ marks = 0
    /\ ret = undefined
    /\ drive = <<>>
    /\ running = FALSE /\ lastSerialized = <<>> /\ accessToken = FALSE /\ autoFile = <<>>
    /\ api = [d \in {"vercel", "netlify"} |->
                [rows |-> <<>>, res |-> [status |-> 0, body |-> [text |-> ""]]]]

\* ensureDB (twicks.js 125-133): the handle after the call, given whether open succeeds
ensureDB(opens) == IF idb = "open" \/ opens THEN "open" ELSE "none"

\* ---- Storage.load (twicks.js 158-172) ----
Load_Call(key, fb) ==
    /\ call.pc = "done"
    /\ call' = [NoCall EXCEPT !.op = "load", !.pc = "getItem", !.key = key, !.fb = fb]
    /\ marks' = 0
    /\ ret' = undefined
    /\ UNCHANGED <<ls, idbData, idb, dirty>>
    /\ UNCHANGED ledger

\* localStorage.getItem and JSON.parse
Load_GetItem(throws) ==
    /\ call.op = "load" /\ call.pc = "getItem"
    /\ LET raw == ls[call.key] IN
       IF throws
       THEN /\ call' = [call EXCEPT !.pc = "idbGet", !.lsThrew = TRUE]
            /\ UNCHANGED ret
       ELSE IF raw.has
       THEN LET parsed == parse(raw.text) IN
            IF parsed = SyntaxError
            THEN /\ ret' = call.fb
                 /\ call' = [call EXCEPT !.pc = "done", !.parseFailed = TRUE]
            ELSE /\ ret' = coalesce(parsed, call.fb)
                 /\ call' = [call EXCEPT !.pc = "done"]
       ELSE /\ call' = [call EXCEPT !.pc = "idbGet"]
            /\ UNCHANGED ret
    /\ UNCHANGED <<ls, idbData, idb, marks, dirty>>
    /\ UNCHANGED ledger

\* idbGet (twicks.js 134-144)
Load_IdbGet(opens, fails) ==
    /\ call.op = "load" /\ call.pc = "idbGet"
    /\ idb' = ensureDB(opens)
    /\ LET v == IF idb' = "none" \/ fails THEN undefined ELSE idbData[call.key] IN
       ret' = coalesce(v, call.fb)
    /\ call' = [call EXCEPT !.pc = "done"]
    /\ UNCHANGED <<ls, idbData, marks, dirty>>
    /\ UNCHANGED ledger

\* ---- Storage.save (twicks.js 173-179) under the two hooks (twicks.js 808-827) ----
Save_Call(key, val) ==
    /\ call.pc = "done"
    /\ call' = [NoCall EXCEPT !.op = "save", !.pc = "setItem", !.key = key, !.val = val]
    /\ marks' = 0
    /\ UNCHANGED <<ls, idbData, idb, ret, dirty>>
    /\ UNCHANGED ledger

\* variant of Save_SetItem that writes through to the database as well
Save_SetItemThrough(throws) ==
    /\ call.op = "save" /\ call.pc = "setItem"
    /\ IF throws
       THEN /\ call' = [call EXCEPT !.pc = "idbSet", !.lsThrew = TRUE]
            /\ UNCHANGED <<ls, idbData>>
       ELSE /\ ls' = [ls EXCEPT ![call.key] = entry(stringify(coalesce(call.val, arr(<<>>))))]
            /\ idbData' = [idbData EXCEPT ![call.key] = coalesce(call.val, arr(<<>>))]
            /\ call' = [call EXCEPT !.pc = "hook1"]
    /\ UNCHANGED <<idb, marks, ret, dirty>>
    /\ UNCHANGED ledger

\* localStorage.setItem(key, JSON.stringify(val ?? []))
Save_SetItem(throws) ==
    /\ call.op = "save" /\ call.pc = "setItem"
    /\ IF throws
       THEN /\ call' = [call EXCEPT !.pc = "idbSet", !.lsThrew = TRUE]
            /\ UNCHANGED ls
       ELSE /\ ls' = [ls EXCEPT ![call.key] = entry(stringify(coalesce(call.val, arr(<<>>))))]
            /\ call' = [call EXCEPT !.pc = "hook1"]
    /\ UNCHANGED <<idbData, idb, marks, ret, dirty>>
    /\ UNCHANGED ledger

\* idbSet (twicks.js 145-155): returns without writing when there is no database,
\* rejects when the transaction fails
Save_IdbSet(opens, fails) ==
    /\ call.op = "save" /\ call.pc = "idbSet"
    /\ idb' = ensureDB(opens)
    /\ IF idb' = "none"
       THEN /\ call' = [call EXCEPT !.pc = "hook1"]
            /\ UNCHANGED idbData
       ELSE IF fails
       THEN /\ call' = [call EXCEPT !.pc = "done", !.threw = TRUE]
            /\ UNCHANGED idbData
       ELSE /\ idbData' = [idbData EXCEPT ![call.key] = coalesce(call.val, arr(<<>>))]
            /\ call' = [call EXCEPT !.pc = "hook1"]
    /\ UNCHANGED <<ls, marks, ret, dirty>>
    /\ UNCHANGED ledger

\* AutoBackup.markDirty (twicks.js 737-740)
markDirty == dirty' = TRUE /\ marks' = marks + 1

\* patchedSave of the first installation (twicks.js 808-816), after originalSave
Hook_First ==
    /\ call.op = "save" /\ call.pc = "hook1"
    /\ markDirty
    /\ call' = [call EXCEPT !.pc = "hook2"]
    /\ UNCHANGED <<ls, idbData, idb, ret>>
    /\ UNCHANGED ledger

\* patchedSave of the second installation (twicks.js 819-827), which wraps the first
Hook_Second ==
    /\ call.op = "save" /\ call.pc = "hook2"
    /\ markDirty
    /\ call' = [call EXCEPT !.pc = "done"]
    /\ UNCHANGED <<ls, idbData, idb, ret>>
    /\ UNCHANGED ledger

\* a write to localStorage that does not come from Storage.save
Foreign_SetItem(key, text) ==
    /\ ls[key] # entry(text)
    /\ ls' = [ls EXCEPT ![key] = entry(text)]
    /\ UNCHANGED <<idbData, idb, call, marks, ret, dirty>>
    /\ UNCHANGED ledger

Ids == 1..MaxUid
Running == BagToSet(tasks)

\* ======================= Drive backup and restore (twicks.js 518-579) =======================
MaxBackups == 1
NoPayload == [bought |-> <<>>, forsale |-> <<>>, sold |-> <<>>, cash |-> <<>>,
              sellers |-> <<>>, shipping |-> <<>>, buyers |-> <<>>]
RECURSIVE CopiesOf(_, _)
CopiesOf(ts, op) ==
    IF ts = {} THEN 0
    ELSE LET t == CHOOSE u \in ts : TRUE IN
         (IF t.op = op THEN CopiesIn(t, tasks) ELSE 0) + CopiesOf(ts \ {t}, op)

\* ---- Drive.backupToDrive (twicks.js 518-535): the payload is read key by key ----
Backup_LoadBought ==
    /\ Len(drive) + CopiesOf(Running, "backup") < MaxBackups
    /\ Spawn(Task("backup", "forsale", 0, "", <<>>, <<>>, [NoPayload EXCEPT !.bought = bought]))
    /\ UNCHANGED <<bought, forsale, sold, cash, sellers, buyers, shipping,
                   lastSeller, lastBuyer, dirty, nextUid, nextImg, cap, intake, trail>>

Backup_Load(t, pc, value, next) ==
    /\ At(t, "backup", pc)
    /\ Goto(t, next, <<>>, <<>>, [t.it EXCEPT ![pc] = value])
    /\ UNCHANGED <<bought, forsale, sold, cash, sellers, buyers, shipping,
                   lastSeller, lastBuyer, dirty, nextUid, nextImg, cap, intake, trail>>

Backup_LoadForSale(t) == Backup_Load(t, "forsale", forsale, "sold")
Backup_LoadSold(t) == Backup_Load(t, "sold", sold, "cash")
Backup_LoadCash(t) == Backup_Load(t, "cash", cash, "sellers")
Backup_LoadSellers(t) == Backup_Load(t, "sellers", sellers, "shipping")
Backup_LoadShipping(t) == Backup_Load(t, "shipping", shipping, "buyers")
Backup_LoadBuyers(t) == Backup_Load(t, "buyers", buyers, "upload")

\* uploadJson (twicks.js 458-489): a new file, or an error and no file
Backup_Upload(t, ok) ==
    /\ At(t, "backup", "upload")
    /\ drive' = IF ok THEN <<t.it>> \o drive ELSE drive
    /\ tasks' = tasks (-) SetToBag({t})
    /\ UNCHANGED <<runs, stVars>>
    /\ UNCHANGED <<bought, forsale, sold, cash, sellers, buyers, shipping,
                   lastSeller, lastBuyer, dirty, nextUid, nextImg, cap, intake, trail>>

\* a backup that an earlier version of the page left in the Drive folder: it
\* has the three stage collections only
Drive_OldFile ==
    /\ Len(drive) + CopiesOf(Running, "backup") < MaxBackups
    /\ tasks = EmptyBag
    /\ drive' = <<[bought |-> bought, forsale |-> forsale, sold |-> sold]>> \o drive
    /\ UNCHANGED <<tasks, runs, stVars>>
    /\ UNCHANGED <<bought, forsale, sold, cash, sellers, buyers, shipping,
                   lastSeller, lastBuyer, dirty, nextUid, nextImg, cap, intake, trail>>

\* variants of overwrite: one that puts the snapshot's value in front of the
\* live value, one that empties a collection the snapshot does not have
merge(data, key, live) == IF key \in DOMAIN data THEN data[key] \o live ELSE live
overwriteAll(data, key, live) == IF key \in DOMAIN data THEN data[key] ELSE <<>>

\* if (data.key) await Storage.save(KEYS.KEY, data.key)
overwrite(data, key, live) == IF key \in DOMAIN data THEN data[key] ELSE live

\* ---- Drive.restoreFromDrive (twicks.js 537-579): file k is chosen and downloaded,
\* then each key of the payload is saved in turn ----
Restore_Download(k) ==
    /\ k \in DOMAIN drive
    /\ Spawn(Task("restore", "restoreBought", 0, "", <<>>, <<>>, drive[k]))
    /\ UNCHANGED <<bought, forsale, sold, cash, sellers, buyers, shipping,
                   lastSeller, lastBuyer, dirty, nextUid, nextImg, cap, intake, trail>>

Restore_SaveBought(t) ==
    /\ At(t, "restore", "restoreBought")
    /\ bought' = overwrite(t.it, "bought", bought)
    /\ dirty' = (dirty \/ "bought" \in DOMAIN t.it)
    /\ Goto(t, "restoreForSale", <<>>, <<>>, t.it)
    /\ UNCHANGED <<forsale, sold, cash, sellers, buyers, shipping,
                   lastSeller, lastBuyer, nextUid, nextImg, cap, intake, trail>>

Restore_SaveForSale(t) ==
    /\ At(t, "restore", "restoreForSale")
    /\ forsale' = overwrite(t.it, "forsale", forsale)
    /\ dirty' = (dirty \/ "forsale" \in DOMAIN t.it)
    /\ Goto(t, "restoreSold", <<>>, <<>>, t.it)
    /\ UNCHANGED <<bought, sold, cash, sellers, buyers, shipping,
                   lastSeller, lastBuyer, nextUid, nextImg, cap, intake, trail>>

Restore_SaveSold(t) ==
    /\ At(t, "restore", "restoreSold")
    /\ sold' = overwrite(t.it, "sold", sold)
    /\ dirty' = (dirty \/ "sold" \in DOMAIN t.it)
    /\ Goto(t, "restoreCash", <<>>, <<>>, t.it)
    /\ UNCHANGED <<bought, forsale, cash, sellers, buyers, shipping,
                   lastSeller, lastBuyer, nextUid, nextImg, cap, intake, trail>>

Restore_SaveCash(t) ==
    /\ At(t, "restore", "restoreCash")
    /\ cash' = overwrite(t.it, "cash", cash)
    /\ dirty' = (dirty \/ "cash" \in DOMAIN t.it)
    /\ Goto(t, "restoreSellers", <<>>, <<>>, t.it)
    /\ UNCHANGED <<bought, forsale, sold, sellers, buyers, shipping,
                   lastSeller, lastBuyer, nextUid, nextImg, cap, intake, trail>>

Restore_SaveSellers(t) ==
    /\ At(t, "restore", "restoreSellers")
    /\ sellers' = overwrite(t.it, "sellers", sellers)
    /\ dirty' = (dirty \/ "sellers" \in DOMAIN t.it)
    /\ Goto(t, "restoreShipping", <<>>, <<>>, t.it)
    /\ UNCHANGED <<bought, forsale, sold, cash, buyers, shipping,
                   lastSeller, lastBuyer, nextUid, nextImg, cap, intake, trail>>

Restore_SaveShipping(t) ==
    /\ At(t, "restore", "restoreShipping")
    /\ shipping' = overwrite(t.it, "shipping", shipping)
    /\ dirty' = (dirty \/ "shipping" \in DOMAIN t.it)
    /\ Goto(t, "restoreBuyers", <<>>, <<>>, t.it)
    /\ UNCHANGED <<bought, forsale, sold, cash, sellers, buyers,
                   lastSeller, lastBuyer, nextUid, nextImg, cap, intake, trail>>

\* the last save, then location.reload(): every handler in flight ends with the page
Restore_SaveBuyers(t) ==
    /\ At(t, "restore", "restoreBuyers")
    /\ buyers' = overwrite(t.it, "buyers", buyers)
    /\ dirty' = (dirty \/ "buyers" \in DOMAIN t.it)
    /\ tasks' = EmptyBag
    /\ UNCHANGED <<runs, stVars, drive>>
    /\ UNCHANGED <<bought, forsale, sold, cash, sellers, shipping,
                   lastSeller, lastBuyer, nextUid, nextImg, cap, intake, trail>>


Init ==
    /\ bought = <<>> /\ forsale = <<>> /\ sold = <<>> /\ cash = <<>>
    /\ sellers = <<"A">>
    /\ buyers = <<>>
    /\ shipping = <<>>
    /\ lastSeller = "" /\ lastBuyer = ""
    /\ dirty = FALSE
    /\ tasks = EmptyBag
    /\ nextUid = 1 /\ nextImg = 1
    /\ cap = 1
    /\ runs = -1
    /\ intake = <<>> /\ trail = <<>>
    /\ StorageIdle

Handlers ==
    \/ \E sel \in SellerNames \cup {""}, buy \in BuyInputs, ship \in ShipInputs, sell \in SellInputs :
          sel \in getSellers \cup {""} /\ AddBought_Load(sel, buy, ship, sell)
    \/ \E t \in Running : AddBought_Save(t)
    \/ \E t \in Running : AddBought_SetLast(t)
    \/ \E id \in Ids : Shown(bought, {"list", "delitem"}, id) /\ ListForSale_Load(id)
    \/ \E t \in Running : ListForSale_SaveBought(t)
    \/ \E t \in Running : ListForSale_LoadForSale(t)
    \/ \E t \in Running : ListForSale_SaveForSale(t)
    \/ \E id \in Ids : Shown(bought, {"list", "delitem"}, id) /\ DeleteItem_Load(id)
    \/ \E t \in Running : DeleteItem_Save(t)
    \/ \E s \in SellerNames \cup {"(No seller)"} :
          ShownGroup({bucket(i) : i \in Range(bought)}, "bulk", s) /\ Bulk_Load(s)
    \/ \E t \in Running : Bulk_LoadForSale(t)
    \/ \E t \in Running : Bulk_SaveBought(t)
    \/ \E t \in Running : Bulk_SaveForSale(t)
    \/ \E price \in PriceInputs : AddForSale_Load(price)
    \/ \E t \in Running : AddForSale_Save(t)
    \/ \E id \in Ids : Shown(forsale, {"sold", "delfs"}, id) /\ DeleteListing_Load(id)
    \/ \E t \in Running : DeleteListing_Save(t)
    \/ \E id \in Ids, sel \in BuyerNames \cup {""}, typed \in BuyerNames \cup {""} :
          Shown(forsale, {"sold", "delfs"}, id) /\ MarkSold_Load(id, sel, typed)
    \/ \E t \in Running : MarkSold_SaveBuyers(t)
    \/ \E t \in Running : MarkSold_LoadForSale(t)
    \/ \E t \in Running : MarkSold_SaveForSale(t)
    \/ \E t \in Running : MarkSold_LoadSold(t)
    \/ \E t \in Running : MarkSold_SaveSold(t)
    \/ \E id \in Ids : PaidButton(id) /\ MarkPaid_Load(id)
    \/ \E t \in Running : MarkPaid_Save(t)
    \/ \E b \in BuyerNames \cup {"Unknown"} : AllPaidButton(b) /\ MarkAllPaid_Load(b)
    \/ \E t \in Running : MarkAllPaid_Save(t)
    \/ \E id \in Ids : Shown(sold, {"paid", "delsold"}, id) /\ DeleteSold_Load(id)
    \/ \E t \in Running : DeleteSold_Save(t)

Next == Handlers

Spec == Init /\ [][Next]_vars

\* ---- overlapping handlers ----
InitRace ==
    /\ \E s2 \in SellerNames :
          /\ bought = <<newItem(2, s2, 100, 10, 150, 2), newItem(1, "A", 100, 10, NaN, 1)>>
          /\ intake = <<[typedSell |-> NaN] @@ newItem(1, "A", 100, 10, NaN, 1),
                        [typedSell |-> 150] @@ newItem(2, s2, 100, 10, 150, 2)>>
    /\ trail = <<<<>>, <<>>>>
    /\ forsale = <<>> /\ sold = <<>> /\ cash = <<>>
    /\ sellers = <<"A", "B">>
    /\ buyers = <<"X">>
    /\ shipping = <<>>
    /\ lastSeller = "" /\ lastBuyer = ""
    /\ dirty = FALSE
    /\ tasks = EmptyBag
    /\ nextUid = 3 /\ nextImg = 3
    /\ cap = MaxTasks
    /\ runs = 0
    /\ StorageIdle

Steps ==
    \/ \E id \in Ids : Shown(bought, {"list", "delitem"}, id) /\ ListForSale_Load(id)
    \/ \E t \in Running : ListForSale_SaveBought(t)
    \/ \E t \in Running : ListForSale_LoadForSale(t)
    \/ \E t \in Running : ListForSale_SaveForSale(t)
    \/ \E s \in SellerNames \cup {"(No seller)"} :
          ShownGroup({bucket(i) : i \in Range(bought)}, "bulk", s) /\ Bulk_Load(s)
    \/ \E t \in Running : Bulk_LoadForSale(t)
    \/ \E t \in Running : Bulk_SaveBought(t)
    \/ \E t \in Running : Bulk_SaveForSale(t)
    \/ \E id \in Ids, sel \in BuyerNames \cup {""} :
          Shown(forsale, {"sold", "delfs"}, id) /\ MarkSold_Load(id, sel, "")
    \/ \E t \in Running : MarkSold_SaveForSale(t)
    \/ \E t \in Running : MarkSold_LoadSold(t)
    \/ \E t \in Running : MarkSold_SaveSold(t)
    \/ \E id \in Ids : PaidButton(id) /\ MarkPaid_Load(id)
    \/ \E t \in Running : MarkPaid_Save(t)
    \/ \E b \in BuyerNames \cup {"Unknown"} : AllPaidButton(b) /\ MarkAllPaid_Load(b)
    \/ \E t \in Running : MarkAllPaid_Save(t)

NextRace == Steps

SpecRace == InitRace /\ [][NextRace]_vars

\* ---- Storage calls, one at a time, over an idle ledger ----
InitStorage ==
    /\ bought = <<>> /\ forsale = <<>> /\ sold = <<>> /\ cash = <<>>
    /\ sellers = <<>> /\ buyers = <<>> /\ shipping = <<>>
    /\ lastSeller = "" /\ lastBuyer = ""
    /\ dirty = FALSE
    /\ tasks = EmptyBag
    /\ nextUid = 1 /\ nextImg = 1
    /\ cap = 1
    /\ runs = -1
    /\ intake = <<>> /\ trail = <<>>
    /\ StorageIdle

NextStorage ==
    \/ \E key \in StorageKeys, fb \in {arr(<<>>)} : Load_Call(key, fb)
    \/ \E throws \in BOOLEAN : Load_GetItem(throws)
    \/ \E opens, fails \in BOOLEAN : Load_IdbGet(opens, fails)
    \/ \E key \in StorageKeys, val \in Arrays \cup {null} : Save_Call(key, val)
    \/ \E throws \in BOOLEAN : Save_SetItem(throws)
    \/ \E opens, fails \in BOOLEAN : Save_IdbSet(opens, fails)
    \/ Hook_First
    \/ Hook_Second
    \/ \E key \in StorageKeys, text \in Foreign : Foreign_SetItem(key, text)

SpecStorage == InitStorage /\ [][NextStorage]_vars

\* ---- sales, payments, backup and restore, one handler after the other, over a
\* store with one listing and one sold record ----
InitRestore ==
    /\ bought = <<>>
    /\ forsale = <<newListing(4, newItem(2, "B", 100, 10, 150, 2))>>
    /\ sold = <<soldFrom(newListing(3, newItem(1, "A", 100, 10, NaN, 1)), "X")>>
    /\ intake = <<[typedSell |-> NaN] @@ newItem(1, "A", 100, 10, NaN, 1),
                  [typedSell |-> 150] @@ newItem(2, "B", 100, 10, 150, 2)>>
    /\ trail = <<<<"list", "sold">>, <<"list">>>>
    /\ cash = <<>>
    /\ sellers = <<"A", "B">>
    /\ buyers = <<"X">>
    /\ shipping = <<>>
    /\ lastSeller = "B" /\ lastBuyer = "X"
    /\ dirty = FALSE
    /\ tasks = EmptyBag
    /\ nextUid = 5 /\ nextImg = 3
    /\ cap = 1
    /\ runs = 0
    /\ StorageIdle

NextRestore ==
    \/ \E id \in Ids, sel \in BuyerNames \cup {""} :
          Shown(forsale, {"sold", "delfs"}, id) /\ MarkSold_Load(id, sel, "")
    \/ \E t \in Running : MarkSold_SaveForSale(t)
    \/ \E t \in Running : MarkSold_LoadSold(t)
    \/ \E t \in Running : MarkSold_SaveSold(t)
    \/ \E id \in Ids : PaidButton(id) /\ MarkPaid_Load(id)
    \/ \E t \in Running : MarkPaid_Save(t)
    \/ \E b \in BuyerNames \cup {"Unknown"} : AllPaidButton(b) /\ MarkAllPaid_Load(b)
    \/ \E t \in Running : MarkAllPaid_Save(t)
    \/ Backup_LoadBought
    \/ \E t \in Running : Backup_LoadForSale(t)
    \/ \E t \in Running : Backup_LoadSold(t)
    \/ \E t \in Running : Backup_LoadCash(t)
    \/ \E t \in Running : Backup_LoadSellers(t)
    \/ \E t \in Running : Backup_LoadShipping(t)
    \/ \E t \in Running : Backup_LoadBuyers(t)
    \/ \E t \in Running, ok \in BOOLEAN : Backup_Upload(t, ok)
    \/ Drive_OldFile
    \/ \E k \in 1..MaxBackups : Restore_Download(k)
    \/ \E t \in Running : Restore_SaveBought(t)
    \/ \E t \in Running : Restore_SaveForSale(t)
    \/ \E t \in Running : Restore_SaveSold(t)
    \/ \E t \in Running : Restore_SaveCash(t)
    \/ \E t \in Running : Restore_SaveSellers(t)
    \/ \E t \in Running : Restore_SaveShipping(t)
    \/ \E t \in Running : Restore_SaveBuyers(t)

SpecRestore == InitRestore /\ [][NextRestore]_vars

\* ---- handlers run one after the other, clicked from the live page or from a
\* second tab of the same origin that rendered earlier: its buttons still carry
\* the ids it rendered (item 1, since listed as listing 3) ----
StaleItems == {1, 2}
StaleListings == {3}
StaleBuyers == {"X", "Unknown"}

InitStale ==
    /\ bought = <<newItem(2, "B", 100, 10, 150, 2)>>
    /\ forsale = <<newListing(3, newItem(1, "A", 100, 10, NaN, 1))>>
    /\ sold = <<>>
    /\ intake = <<[typedSell |-> NaN] @@ newItem(1, "A", 100, 10, NaN, 1),
                  [typedSell |-> 150] @@ newItem(2, "B", 100, 10, 150, 2)>>
    /\ trail = <<<<"list">>, <<>>>>
    /\ cash = <<>>
    /\ sellers = <<"A", "B">>
    /\ buyers = <<>>
    /\ shipping = <<>>
    /\ lastSeller = "B" /\ lastBuyer = ""
    /\ dirty = FALSE
    /\ tasks = EmptyBag
    /\ nextUid = 4 /\ nextImg = 3
    /\ cap = 1
    /\ runs = 0
    /\ StorageIdle

NextStale ==
    \/ \E id \in IdsOf(bought) \cup StaleItems : ListForSale_Load(id)
    \/ \E t \in Running : ListForSale_SaveBought(t)
    \/ \E t \in Running : ListForSale_LoadForSale(t)
    \/ \E t \in Running : ListForSale_SaveForSale(t)
    \/ \E id \in IdsOf(forsale) \cup StaleListings, sel \in BuyerNames \cup {""}, typed \in BuyerNames \cup {""} :
          MarkSold_Load(id, sel, typed)
    \/ \E t \in Running : MarkSold_SaveBuyers(t)
    \/ \E t \in Running : MarkSold_LoadForSale(t)
    \/ \E t \in Running : MarkSold_SaveForSale(t)
    \/ \E t \in Running : MarkSold_LoadSold(t)
    \/ \E t \in Running : MarkSold_SaveSold(t)
    \/ \E id \in IdsOf(sold) \cup StaleListings : MarkPaid_Load(id)
    \/ \E t \in Running : MarkPaid_Save(t)
    \/ \E b \in StaleBuyers : MarkAllPaid_Load(b)
    \/ \E t \in Running : MarkAllPaid_Save(t)

SpecStale == InitStale /\ [][NextStale]_vars

\* ---- the Manage Sellers and Manage Buyers dialogs ----
\* The dialog is a task that stays at "open" and keeps the Set it read when it
\* was opened (sellersSet, buyersSet) in field a. Its veil covers the page, so
\* no other handler starts while it is shown; a click handler of the dialog is
\* modelled as the step that answers the prompts and the step that runs the
\* body up to its last save.
NewNames == {"", "A", "B", "C"}
NoClick == [id |-> 0, name |-> "", nn |-> ""]

\* Set.prototype.delete -> Array.from
setKeep(names, name) == names
setDelete(names, name) == SelectSeq(names, LAMBDA x : x # name)

\* variants of retag: one that tags every record, one that tags none
retagAll(coll, name, nn) == [i \in 1..Len(coll) |-> [coll[i] EXCEPT !.seller = nn]]
retagNone(coll, name, nn) == coll

\* coll.forEach(i => { if ((i.seller || "") === name) i.seller = nn })
retag(coll, name, nn) ==
    [i \in 1..Len(coll) |->
        IF coll[i].seller = name THEN [coll[i] EXCEPT !.seller = nn] ELSE coll[i]]

showManageSellersModal ==
    /\ Spawn(Task("sellers", "open", 0, "", sellers, <<>>, NoClick))
    /\ UNCHANGED <<bought, forsale, sold, cash, sellers, buyers, shipping,
                   lastSeller, lastBuyer, dirty, nextUid, nextImg, cap, intake, trail>>

showManageBuyersModal ==
    /\ Spawn(Task("buyers", "open", 0, "", buyers, <<>>, NoClick))
    /\ UNCHANGED <<bought, forsale, sold, cash, sellers, buyers, shipping,
                   lastSeller, lastBuyer, dirty, nextUid, nextImg, cap, intake, trail>>

\* list.onclick up to the prompts: the row's button gives act and name, the
\* prompt gives the new name (rename) or the name to reassign to (delete)
Modal_Click(t, act, name, nn) ==
    /\ t.op \in {"sellers", "buyers"} /\ t.pc = "open"
    /\ name \in Range(t.a)
    /\ t.op = "buyers" /\ act = "delete" => nn = ""
    /\ Goto(t, act, t.a, <<>>, [id |-> 0, name |-> name, nn |-> nn])
    /\ UNCHANGED <<bought, forsale, sold, cash, sellers, buyers, shipping,
                   lastSeller, lastBuyer, dirty, nextUid, nextImg, cap, intake, trail>>

\* veil.onclick, #closeMS, #closeMB
Modal_Close(t) ==
    /\ t.op \in {"sellers", "buyers"} /\ t.pc = "open"
    /\ Done(t)
    /\ UNCHANGED <<bought, forsale, sold, cash, sellers, buyers, shipping,
                   lastSeller, lastBuyer, dirty, nextUid, nextImg, cap, intake, trail>>

\* act === "rename" in the Manage Sellers dialog
Sellers_Rename(t) ==
    /\ At(t, "sellers", "rename")
    /\ LET name == t.it.name
           nn == t.it.nn IN
       IF nn = "" \/ nn = name
       THEN /\ Goto(t, "open", t.a, <<>>, NoClick)
            /\ UNCHANGED <<sellers, bought, forsale, lastSeller, dirty>>
       ELSE LET sellersSet == setAdd(setDelete(t.a, name), nn) IN
            /\ sellers' = sellersSet
            /\ bought' = retag(bought, name, nn)
            /\ forsale' = retag(forsale, name, nn)
            /\ lastSeller' = IF lastSeller = name THEN nn ELSE lastSeller
            /\ dirty' = TRUE
            /\ Goto(t, "open", sellersSet, <<>>, NoClick)
    /\ UNCHANGED <<sold, cash, buyers, shipping, lastBuyer, nextUid, nextImg, cap,
                   intake, trail>>

\* act === "delete" in the Manage Sellers dialog
Sellers_Delete(t) ==
    /\ At(t, "sellers", "delete")
    /\ LET name == t.it.name
           reassignTo == t.it.nn
           added == IF reassignTo # "" THEN setAdd(t.a, reassignTo) ELSE t.a
           sellersSet == setDelete(added, name) IN
       /\ bought' = retag(bought, name, reassignTo)
       /\ forsale' = retag(forsale, name, reassignTo)
       /\ sellers' = sellersSet
       /\ lastSeller' = IF lastSeller = name THEN "" ELSE lastSeller
       /\ dirty' = TRUE
       /\ Goto(t, "open", sellersSet, <<>>, NoClick)
    /\ UNCHANGED <<sold, cash, buyers, shipping, lastBuyer, nextUid, nextImg, cap,
                   intake, trail>>

\* act === "delete" in the Manage Buyers dialog
Buyers_Delete(t) ==
    /\ At(t, "buyers", "delete")
    /\ LET name == t.it.name
           buyersSet == setDelete(t.a, name) IN
       /\ buyers' = buyersSet
       /\ lastBuyer' = IF lastBuyer = name THEN "" ELSE lastBuyer
       /\ dirty' = TRUE
       /\ Goto(t, "open", buyersSet, <<>>, NoClick)
    /\ UNCHANGED <<bought, forsale, sold, cash, sellers, shipping, lastSeller,
                   nextUid, nextImg, cap, intake, trail>>

\* act === "rename" in the Manage Buyers dialog; a listing for sale carries no
\* buyer, so the forEach over FORSALE tags nothing; SHIP_OUT_MAP is not read
Buyers_Rename(t) ==
    /\ At(t, "buyers", "rename")
    /\ LET name == t.it.name
           nn == t.it.nn IN
       IF nn = "" \/ nn = name
       THEN /\ Goto(t, "open", t.a, <<>>, NoClick)
            /\ UNCHANGED <<buyers, sold, lastBuyer, dirty>>
       ELSE LET buyersSet == setAdd(setDelete(t.a, name), nn) IN
            /\ buyers' = buyersSet
            /\ sold' = [i \in 1..Len(sold) |->
                          IF sold[i].buyer = name THEN [sold[i] EXCEPT !.buyer = nn]
                          ELSE sold[i]]
            /\ lastBuyer' = IF lastBuyer = name THEN nn ELSE lastBuyer
            /\ dirty' = TRUE
            /\ Goto(t, "open", buyersSet, <<>>, NoClick)
    /\ UNCHANGED <<bought, forsale, cash, sellers, shipping, lastSeller, nextUid,
                   nextImg, cap, intake, trail>>

InitParties ==
    /\ \E s1, s2, s3 \in SellerNames :
          /\ bought = <<newItem(2, s2, 100, 10, 150, 2), newItem(1, s1, 100, 10, NaN, 1)>>
          /\ forsale = <<newListing(6, newItem(3, s3, 100, 10, NaN, 3))>>
          /\ intake = <<[typedSell |-> NaN] @@ newItem(1, s1, 100, 10, NaN, 1),
                        [typedSell |-> 150] @@ newItem(2, s2, 100, 10, 150, 2),
                        [typedSell |-> NaN] @@ newItem(3, s3, 100, 10, NaN, 3),
                        [typedSell |-> NaN] @@ newItem(4, "A", 100, 10, NaN, 4)>>
    /\ sold = <<soldFrom(newListing(5, newItem(4, "A", 100, 10, NaN, 4)), "X")>>
    /\ trail = <<<<>>, <<>>, <<"list">>, <<"list", "sold">>>>
    /\ cash = <<>>
    /\ sellers = <<"A", "B">>
    /\ buyers = <<"X">>
    /\ shipping \in {<<>>, [entries |-> ("X" :> 20)]}
    /\ lastSeller \in {"A", "B"} /\ lastBuyer \in {"X", ""}
    /\ dirty = FALSE
    /\ tasks = EmptyBag
    /\ nextUid = 7 /\ nextImg = 5
    /\ cap = 1
    /\ runs = -1
    /\ StorageIdle

NextParties ==
    \/ showManageSellersModal
    \/ showManageBuyersModal
    \/ \E t \in Running, act \in {"rename", "delete"}, name \in SellerNames \cup BuyerNames \cup NewNames,
          nn \in NewNames :
          Modal_Click(t, act, name, nn)
    \/ \E t \in Running : Modal_Close(t)
    \/ \E t \in Running : Sellers_Rename(t)
    \/ \E t \in Running : Sellers_Delete(t)
    \/ \E t \in Running : Buyers_Delete(t)
    \/ \E t \in Running : Buyers_Rename(t)

SpecParties == InitParties /\ [][NextParties]_vars

\* ---- Sold page: shipping fee and Add to Cash; Cash page (twicks.js 2206-2299, 2339-2517) ----
\* what is typed into a prompt or an amount field; Prefilled is the amount field
\* of the Add to Cash dialog left as it was filled in (the buyer's total)
Texts == {"50", "0", "", "abc"}
Prefilled == "total"
Number(v) == CASE v = "50" -> 50 [] v = "0" -> 0 [] v = "" -> 0 [] OTHER -> NaN
parseFloat(v) == CASE v = "50" -> 50 [] v = "0" -> 0 [] OTHER -> NaN

\* KEYS.SHIP_OUT_MAP holds an object, written here as [entries |-> buyer -> fee];
\* a store that was never written loads as the fallback [] (here <<>>)
asMap(m) == IF DOMAIN m # {} THEN m ELSE [entries |-> <<>>]

\* Number(shipping[buyer] || 0)
feeNone(m, buyer) == 0
feeOf(m, buyer) ==
    IF buyer \in DOMAIN asMap(m).entries THEN asMap(m).entries[buyer] ELSE 0

\* variant of put that keeps no other entry
putOnly(m, buyer, n) == [entries |-> [k \in {buyer} |-> n]]

\* newMap[buyer] = n
put(m, buyer, n) ==
    [entries |-> [k \in DOMAIN m.entries \cup {buyer} |->
                    IF k = buyer THEN n ELSE m.entries[k]]]

\* variant of negAbs that keeps the sign
keepSign(n) == n

\* -Math.abs(Number(amount))
negAbs(n) == IF n < 0 THEN n ELSE 0 - n

\* .set-sf: the buyer block clicked, the stored map loaded
SetSf_Load(buyer) ==
    /\ Spawn(Task("setsf", "prompt", 0, buyer, shipping, <<>>, NoRec))
    /\ UNCHANGED <<bought, forsale, sold, cash, sellers, buyers, shipping,
                   lastSeller, lastBuyer, dirty, nextUid, nextImg, cap, intake, trail>>

\* .set-sf: the prompt answered with text v, or cancelled
SetSf_Save(t, v, cancelled) ==
    /\ At(t, "setsf", "prompt")
    /\ IF cancelled \/ Number(v) = NaN
       THEN UNCHANGED <<shipping, dirty>>
       ELSE /\ shipping' = put(asMap(t.a), t.who, Number(v))
            /\ dirty' = TRUE
    /\ Done(t)
    /\ UNCHANGED <<bought, forsale, sold, cash, sellers, buyers,
                   lastSeller, lastBuyer, nextUid, nextImg, cap, intake, trail>>

\* #addCashBtn and #deductCashBtn: readInputs()
AddCash_Click(source, v) ==
    /\ UidRoom(1)
    /\ Spawn(Task("cashadd", "check", 0, "", <<>>, <<>>, [id |-> 0, source |-> source, text |-> v]))
    /\ UNCHANGED <<bought, forsale, sold, cash, sellers, buyers, shipping,
                   lastSeller, lastBuyer, dirty, nextUid, nextImg, cap, intake, trail>>

DeductCash_Click(source, v) ==
    /\ UidRoom(1)
    /\ Spawn(Task("cashded", "check", 0, "", <<>>, <<>>, [id |-> 0, source |-> source, text |-> v]))
    /\ UNCHANGED <<bought, forsale, sold, cash, sellers, buyers, shipping,
                   lastSeller, lastBuyer, dirty, nextUid, nextImg, cap, intake, trail>>

\* .add-to-cash: the dialog is shown only when every record of the buyer is
\* Paid; the task keeps the buyer's total in field id
AddToCash_Open(buyer) ==
    /\ \A i \in Range(groupOf(buyer)) : statusOf(i) = "Paid"
    /\ UidRoom(1)
    /\ Spawn(Task("tocash", "modal", SumPrice(groupOf(buyer)), buyer, <<>>, <<>>, NoRec))
    /\ UNCHANGED <<bought, forsale, sold, cash, sellers, buyers, shipping,
                   lastSeller, lastBuyer, dirty, nextUid, nextImg, cap, intake, trail>>

\* #okAddCash: source and amount field read
AddToCash_Ok(t, source, v) ==
    /\ At(t, "tocash", "modal")
    /\ Goto(t, "check", <<>>, <<>>, [id |-> 0, source |-> source, text |-> v])
    /\ UNCHANGED <<bought, forsale, sold, cash, sellers, buyers, shipping,
                   lastSeller, lastBuyer, dirty, nextUid, nextImg, cap, intake, trail>>

\* #cancelAddCash, veil.onclick
AddToCash_Cancel(t) ==
    /\ At(t, "tocash", "modal")
    /\ Done(t)
    /\ UNCHANGED <<bought, forsale, sold, cash, sellers, buyers, shipping,
                   lastSeller, lastBuyer, dirty, nextUid, nextImg, cap, intake, trail>>

\* the three places that create a cash entry: validation, items.unshift({id:
\* Util.uid(), source, amount}), Storage.save(KEYS.CASH, items). Field via
\* records which handler made the entry.
Cash_Save(t) ==
    /\ t.op \in {"cashadd", "cashded", "tocash"} /\ t.pc = "check"
    /\ LET amt == IF t.it.text = Prefilled THEN t.id ELSE parseFloat(t.it.text)
           amount == IF t.op = "cashded" THEN negAbs(amt) ELSE amt IN
       IF t.it.source = "" \/ amt = NaN \/ amt <= 0
       THEN /\ UNCHANGED <<cash, nextUid, dirty>>
            /\ IF t.op = "tocash" THEN Goto(t, "modal", <<>>, <<>>, NoRec) ELSE Done(t)
       ELSE /\ cash' = unshift(cash, [id |-> nextUid, source |-> t.it.source,
                                      amount |-> amount, via |-> t.op])
            /\ nextUid' = nextUid + 1
            /\ dirty' = TRUE
            /\ Done(t)
    /\ UNCHANGED <<bought, forsale, sold, sellers, buyers, shipping,
                   lastSeller, lastBuyer, nextImg, cap, intake, trail>>

\* .delete-cash
DeleteCash_Load(id) ==
    /\ Spawn(Task("delcash", "saveCash", id, "", cash, <<>>, NoRec))
    /\ UNCHANGED <<bought, forsale, sold, cash, sellers, buyers, shipping,
                   lastSeller, lastBuyer, dirty, nextUid, nextImg, cap, intake, trail>>

DeleteCash_Save(t) ==
    /\ At(t, "delcash", "saveCash")
    /\ LET idx == findIndex(t.a, t.id, 1) IN
       IF idx = 0
       THEN UNCHANGED <<cash, dirty>>
       ELSE cash' = splice(t.a, idx) /\ dirty' = TRUE
    /\ Done(t)
    /\ UNCHANGED <<bought, forsale, sold, sellers, buyers, shipping,
                   lastSeller, lastBuyer, nextUid, nextImg, cap, intake, trail>>

\* Cash.calcSoldRevenue and Cash.render: the totals of the Cash page
pendingRevenue == SumPrice(SelectSeq(sold, LAMBDA i : statusOf(i) # "Paid"))
paidRevenue == SumPrice(SelectSeq(sold, LAMBDA i : statusOf(i) = "Paid"))
onHandTotal ==
    LET totals(source) == SumAmount(SelectSeq(cash, LAMBDA i : i.source = source)) IN
    totals("GCash") + totals("SeaBank") + totals("Cash")
grand == onHandTotal + paidRevenue

\* Sold.render: the row of a buyer block
gross(buyer) == SumPrice(groupOf(buyer))
net(buyer) == gross(buyer) - feeOf(shipping, buyer)
allPaid(buyer) == ~hasPending(buyer)

InitCash ==
    /\ bought = <<>>
    /\ forsale = <<newStandalone(2, 200, 2), newStandalone(1, 100, 1)>>
    /\ sold = <<>>
    /\ intake = <<NoRec, NoRec>>
    /\ trail = <<<<>>, <<>>>>
    /\ cash = <<>>
    /\ sellers = <<>>
    /\ buyers = <<"X">>
    /\ shipping = <<>>
    /\ lastSeller = "" /\ lastBuyer = ""
    /\ dirty = FALSE
    /\ tasks = EmptyBag
    /\ nextUid = 3 /\ nextImg = 3
    /\ cap = 1
    /\ runs = -1
    /\ StorageIdle

NextCash ==
    \/ \E id \in IdsOf(forsale), sel \in BuyerNames \cup {""} : MarkSold_Load(id, sel, "")
    \/ \E t \in Running : MarkSold_SaveForSale(t)
    \/ \E t \in Running : MarkSold_LoadSold(t)
    \/ \E t \in Running : MarkSold_SaveSold(t)
    \/ \E id \in IdsOf(sold) : PaidButton(id) /\ MarkPaid_Load(id)
    \/ \E t \in Running : MarkPaid_Save(t)
    \/ \E b \in StaleBuyers : AllPaidButton(b) /\ MarkAllPaid_Load(b)
    \/ \E t \in Running : MarkAllPaid_Save(t)
    \/ \E b \in StaleBuyers : groupOf(b) # <<>> /\ SetSf_Load(b)
    \/ \E t \in Running, v \in Texts, cancelled \in BOOLEAN : SetSf_Save(t, v, cancelled)
    \/ \E source \in {"", "GCash"}, v \in Texts : AddCash_Click(source, v)
    \/ \E source \in {"", "GCash"}, v \in Texts : DeductCash_Click(source, v)
    \/ \E b \in StaleBuyers : groupOf(b) # <<>> /\ AddToCash_Open(b)
    \/ \E t \in Running, source \in {"GCash"}, v \in Texts \cup {Prefilled} :
          AddToCash_Ok(t, source, v)
    \/ \E t \in Running : AddToCash_Cancel(t)
    \/ \E t \in Running : Cash_Save(t)
    \/ \E id \in IdsOf(cash) : DeleteCash_Load(id)
    \/ \E t \in Running : DeleteCash_Save(t)

SpecCash == InitCash /\ [][NextCash]_vars

\* ======================= AutoBackup (twicks.js 598-745) =======================
\* A backup in flight is a task "auto" in the bag, with the payload it built in
\* field it. It is started by a timer or an event, not by a click on the page,
\* so it does not count against cap. Storage.load reads localStorage here, so
\* buildPayload is one step; driveUpsertJsonRolling is one step that ends with
\* the answer of Drive (the search request, then the upsert request).
Reasons == {"interval", "idle", "online", "visibility"}
Outcomes == {"saved", "searchFailed", "upsertFailed"}

\* variant of the guard that lets every call in
neverReentered == FALSE
\* if (running) return
reentered == running

\* variant of the finally block that leaves the flag as it is
noFinally(t) == tasks' = tasks (-) SetToBag({t}) /\ UNCHANGED running
\* finally { running = false } as the call returns
finally(t) == tasks' = tasks (-) SetToBag({t}) /\ running' = FALSE

\* variant of res.ok that takes every answer for a success
okAlways(outcome) == TRUE
\* searchRes.ok and res.ok
resOk(outcome) == outcome = "saved"

\* the collections of the payload; exportedAt is left out
buildPayload ==
    [bought |-> bought, forsale |-> forsale, sold |-> sold, cash |-> cash,
     sellers |-> sellers, shipping |-> shipping, buyers |-> buyers]

\* performBackup up to the first await: the guard, running = true and the dirty
\* check; a call that returns at the guard or at the dirty check (through the
\* finally block) leaves every variable as it was
performBackup(reason) ==
    /\ BagCardinality(tasks) < MaxTasks
    /\ IF reentered \/ ~dirty
       THEN UNCHANGED <<tasks, running>>
       ELSE /\ running' = TRUE
            /\ tasks' = tasks (+) SetToBag({Task("auto", "buildPayload", 0, reason, <<>>, <<>>, NoRec)})
    /\ UNCHANGED <<bought, forsale, sold, cash, sellers, buyers, shipping, lastSeller,
                   lastBuyer, dirty, nextUid, nextImg, cap, runs, intake, trail>>
    /\ UNCHANGED <<ls, idbData, idb, call, marks, ret, drive>>
    /\ UNCHANGED <<lastSerialized, accessToken, autoFile, api>>

\* setInterval, scheduleIdle, "online" and "visibilitychange": if (dirty) performBackup(reason)
Auto_Timer(reason) == dirty /\ performBackup(reason)

\* #btnAutoBackupNow
forceNow == performBackup("manual")

\* performBackup from buildPayload to the first await of driveUpsertJsonRolling,
\* and to its end when Drive.isSignedIn() is false: driveUpsertJsonRolling then
\* returns at once and the lines after the await run
Auto_BuildPayload(t) ==
    /\ At(t, "auto", "buildPayload")
    /\ LET payload == buildPayload
           serialized == <<payload>> IN
       IF ~dirty /\ serialized = lastSerialized
       THEN finally(t) /\ UNCHANGED <<lastSerialized, dirty>>
       ELSE IF ~accessToken
            THEN /\ lastSerialized' = serialized
                 /\ dirty' = FALSE
                 /\ finally(t)
            ELSE /\ tasks' = (tasks (-) SetToBag({t}))
                             (+) SetToBag({[t EXCEPT !.pc = "upsert", !.it = payload]})
                 /\ UNCHANGED <<lastSerialized, dirty, running>>
    /\ UNCHANGED <<bought, forsale, sold, cash, sellers, buyers, shipping, lastSeller,
                   lastBuyer, nextUid, nextImg, cap, runs, intake, trail>>
    /\ UNCHANGED <<ls, idbData, idb, call, marks, ret, drive>>
    /\ UNCHANGED <<accessToken, autoFile, api>>

\* driveUpsertJsonRolling after the token (twicks.js 635-682) and the rest of
\* performBackup: the file is created or replaced, or the request that was not
\* ok throws and the catch block logs it
Auto_Upsert(t, outcome) ==
    /\ At(t, "auto", "upsert")
    /\ IF resOk(outcome)
       THEN /\ autoFile' = <<t.it>>
            /\ lastSerialized' = <<t.it>>
            /\ dirty' = FALSE
       ELSE UNCHANGED <<autoFile, lastSerialized, dirty>>
    /\ finally(t)
    /\ UNCHANGED <<bought, forsale, sold, cash, sellers, buyers, shipping, lastSeller,
                   lastBuyer, nextUid, nextImg, cap, runs, intake, trail>>
    /\ UNCHANGED <<ls, idbData, idb, call, marks, ret, drive>>
    /\ UNCHANGED <<accessToken, api>>

\* the token callback (twicks.js 428-431) and sign-out (405-409)
Drive_Token(held) ==
    /\ accessToken # held
    /\ accessToken' = held
    /\ UNCHANGED <<bought, forsale, sold, cash, sellers, buyers, shipping, lastSeller,
                   lastBuyer, dirty, tasks, nextUid, nextImg, cap, runs, intake, trail>>
    /\ UNCHANGED <<ls, idbData, idb, call, marks, ret, drive>>
    /\ UNCHANGED <<running, lastSerialized, autoFile, api>>

InitAuto ==
    /\ bought = <<>> /\ forsale = <<>> /\ sold = <<>>
    /\ intake = <<>> /\ trail = <<>>
    /\ cash = <<>>
    /\ sellers = <<>> /\ buyers = <<>>
    /\ shipping = <<>>
    /\ lastSeller = "" /\ lastBuyer = ""
    /\ dirty = FALSE
    /\ tasks = EmptyBag
    /\ nextUid = 1 /\ nextImg = 1
    /\ cap = MaxTasks
    /\ runs = -1
    /\ StorageIdle

NextAuto ==
    \/ AddCash_Click("GCash", "50")
    \/ \E t \in Running : Cash_Save(t)
    \/ \E reason \in Reasons : Auto_Timer(reason)
    \/ forceNow
    \/ \E t \in Running : Auto_BuildPayload(t)
    \/ \E t \in Running, outcome \in Outcomes : Auto_Upsert(t, outcome)
    \/ \E held \in BOOLEAN : Drive_Token(held)

SpecAuto == InitAuto /\ [][NextAuto]_vars

\* a request to Drive is answered and a load returns: the steps of a backup in
\* flight are taken
FairAuto ==
    /\ SpecAuto
    /\ WF_vars(\E t \in Running : Auto_BuildPayload(t))
    /\ WF_vars(\E t \in Running, outcome \in Outcomes : Auto_Upsert(t, outcome))

\* ======================= the backup endpoint (api/twicks-backup.js, part_000) =======================
\* Both deployments get the same requests, each against its own table
\* twicks_backups. A response is its status and its body; a JSON body is the
\* record of its fields, a body that is not JSON is [text |-> ...]. An absent
\* payload or label of the request body is "".
MaxRows == 3
Methods == {"POST", "GET", "OPTIONS", "DELETE"}

\* INSERT ... RETURNING: id is the serial key, created_at the time of the insert
insert(rows, label, payload) ==
    [id |-> Len(rows) + 1, created_at |-> Len(rows) + 1, label |-> label, payload |-> payload]

\* ORDER BY created_at DESC LIMIT 1, on a table that has a row
latest(rows) == CHOOSE r \in Range(rows) : \A q \in Range(rows) : q.created_at <= r.created_at

\* handler of api/twicks-backup.js
vercel(rows, method, payload, label) ==
    CASE method = "OPTIONS" -> [rows |-> rows, res |-> [status |-> 200, body |-> [text |-> ""]]]
      [] method = "POST" ->
            IF payload = ""
            THEN [rows |-> rows,
                  res |-> [status |-> 400, body |-> [success |-> FALSE, error |-> "Missing payload"]]]
            ELSE LET row == insert(rows, IF label = "" THEN "manual" ELSE label, payload) IN
                 [rows |-> Append(rows, row),
                  res |-> [status |-> 200, body |-> [success |-> TRUE, backup |-> row]]]
      [] method = "GET" ->
            IF rows = <<>>
            THEN [rows |-> rows,
                  res |-> [status |-> 200,
                           body |-> [success |-> FALSE, backup |-> [text |-> "null"],
                                     error |-> "No backups found"]]]
            ELSE [rows |-> rows,
                  res |-> [status |-> 200, body |-> [success |-> TRUE, backup |-> latest(rows)]]]
      [] OTHER -> [rows |-> rows,
                   res |-> [status |-> 405, body |-> [success |-> FALSE, error |-> "Method not allowed"]]]

\* exports.handler of the Netlify function; nullable: the payload column takes
\* the NULL that an absent payload is sent as
netlify(rows, method, payload, label, nullable) ==
    CASE method = "POST" ->
            IF payload = "" /\ ~nullable
            THEN [rows |-> rows, res |-> [status |-> 500, body |-> [error |-> "null value"]]]
            ELSE LET row == insert(rows, IF label = "" THEN "manual" ELSE label, payload) IN
                 [rows |-> Append(rows, row),
                  res |-> [status |-> 200,
                           body |-> [success |-> TRUE,
                                     saved |-> [id |-> row.id, created_at |-> row.created_at]]]]
      [] method = "GET" ->
            [rows |-> rows,
             res |-> [status |-> 200,
                      body |-> [success |-> TRUE,
                                backup |-> IF rows = <<>> THEN [text |-> "null"] ELSE latest(rows)]]]
      [] OTHER -> [rows |-> rows, res |-> [status |-> 405, body |-> [text |-> "Method not allowed"]]]

\* one request, sent to both deployments
Request(method, payload, label, nullable) ==
    /\ method = "POST" => Len(api["vercel"].rows) < MaxRows /\ Len(api["netlify"].rows) < MaxRows
    /\ api' = [d \in {"vercel", "netlify"} |->
                 IF d = "vercel" THEN vercel(api[d].rows, method, payload, label)
                 ELSE netlify(api[d].rows, method, payload, label, nullable)]
    /\ UNCHANGED <<bought, forsale, sold, cash, sellers, buyers, shipping, lastSeller,
                   lastBuyer, dirty, tasks, nextUid, nextImg, cap, runs, intake, trail>>
    /\ UNCHANGED <<ls, idbData, idb, call, marks, ret, drive>>
    /\ UNCHANGED <<running, lastSerialized, accessToken, autoFile>>

NextApi ==
    \E method \in Methods, payload \in {"", "p"}, label \in {"", "auto"}, nullable \in BOOLEAN :
       Request(method, payload, label, nullable)

SpecApi == InitAuto /\ [][NextApi]_vars

\* ======================= properties of the ledger pipeline =======================
ImgCount(coll, g) == Len(SelectSeq(coll, LAMBDA r : r.image = g))
TakenIn == {g \in DOMAIN intake : intake[g].id # 0}
\* the step is one of handler t (the page reload that ends a restore also ends
\* the other handlers in flight: those do not take a step)
Advances(t) ==
    /\ CopiesIn(t, tasks') < CopiesIn(t, tasks)
    /\ BagCardinality(tasks) - BagCardinality(tasks') <= 1 \/ t.pc = "restoreBuyers"

\* C1: after moveToListing(i), markSold on the resulting listing and markPaid on
\* the resulting sold record, i is in neither inventory nor for-sale, sold holds
\* exactly one record derived from i, that record is Paid and its buy is
\* i.buy + i.ship; none of the three handlers writes cash, sellers or shipping.
C1_Chain == <<"list", "sold", "paid">>
C1_After(g) ==
    /\ ImgCount(bought, g) = 0
    /\ ImgCount(forsale, g) = 0
    /\ ImgCount(sold, g) = 1
    /\ \A r \in Range(sold) :
          r.image = g => statusOf(r) = "Paid" /\ r.buy = intake[g].buy + intake[g].ship
C1_Pipeline ==
    [][/\ \A g \in TakenIn :
             (trail[g] # C1_Chain /\ trail'[g] = C1_Chain) => C1_After(g)'
       /\ \A t \in Running :
             (t.op \in {"list", "sold", "paid"} /\ Advances(t))
                => UNCHANGED <<cash, sellers, shipping>>]_vars
C1_Witness ==
    \E g \in TakenIn :
       /\ trail[g] = C1_Chain
       /\ intake[g].ship > 0
       /\ \E r \in Range(sold) : r.image = g /\ statusOf(r) = "Paid" /\ r.buy = 110

\* C2: in every state of the persisted store each item taken in is in exactly
\* one of inventory, for-sale and sold, and only once.
C2_ExactlyOne ==
    \A g \in TakenIn : ImgCount(bought, g) + ImgCount(forsale, g) + ImgCount(sold, g) = 1

\* C3 (as claimed): every stage move gives the destination record a fresh id, the
\* listing's different from the item's and the sold record's different from the
\* listing's.
ListingIdFresh ==
    /\ \A t \in Running :
          (t.op = "list" /\ t.pc = "saveForSale" /\ Advances(t))
             => Head(forsale').id # t.it.id /\ Head(forsale').image = t.it.image
    /\ \A t \in Running :
          (t.op = "bulk" /\ t.pc = "saveBought" /\ Advances(t))
             => \A i \in Range(t.a) : bucket(i) = t.who =>
                   \E u \in Running' :
                      /\ u.op = "bulk" /\ u.pc = "saveForSale"
                      /\ \E l \in Range(u.b) : l.image = i.image /\ l.id # i.id
                      /\ \A l \in Range(u.b) : l.image = i.image => l.id \notin IdsOf(t.a)
C3_FreshIds ==
    [][/\ ListingIdFresh
       /\ \A t \in Running :
             (t.op = "sold" /\ t.pc = "saveSold" /\ Advances(t))
                => Head(sold').id # t.id]_vars
\* C3 (amended): the listing created by moveToListing / bulkMoveSellerToListing
\* has an id different from the item's; the sold record created by markSold
\* keeps the id of its listing.
C3_ListingFreshSoldKeeps ==
    [][/\ ListingIdFresh
       /\ \A t \in Running :
             (t.op = "sold" /\ t.pc = "saveSold" /\ Advances(t))
                => Head(sold').id = t.id /\ Head(sold').image = t.it.image]_vars
C3_Witness ==
    /\ \E r \in Range(sold) : r.image \in TakenIn /\ r.id # intake[r.image].id
    /\ \E g \in TakenIn : trail[g] = <<"bulk">>

\* C7 (as claimed): no step of any operation takes a sold record from Paid back
\* to Pending, and only markPaid and markAllPaid change a status.
Count(s, x) == Len(SelectSeq(s, LAMBDA r : r.id = x))
PaidCount(s, x) == Len(SelectSeq(s, LAMBDA r : r.id = x /\ statusOf(r) = "Paid"))
Snapshot(t) == IF t.op = "sold" THEN t.b ELSE t.a
Offset(t) == IF t.op = "sold" THEN 1 ELSE 0
Writes(t) ==
    \/ t.op = "sold"
    \/ t.op = "paid" /\ findIndex(t.a, t.id, 1) # 0
    \/ t.op = "paidall" /\ \E r \in Range(t.a) : buyerOf(r) = t.who /\ statusOf(r) # "Paid"
UniqueIds(coll) == \A i, j \in DOMAIN coll : i # j => coll[i].id # coll[j].id
C8_UniqueIds == UniqueIds(bought) /\ UniqueIds(forsale) /\ UniqueIds(sold)

\* C9: no load by another operation observes inventory without the items of
\* bucket s while their listings are not yet in for-sale; and when the bulk move
\* completes, inventory holds no item of the bucket and for-sale has gained
\* exactly one listing per moved item.
BulkGap ==
    \E t \in Running :
       /\ t.op = "bulk" /\ t.pc = "saveForSale"
       /\ \E i \in Range(t.a) : ImgCount(bought, i.image) = 0 /\ ImgCount(forsale, i.image) = 0
C9_BulkAtomic ==
    [][/\ BagCardinality(tasks') > BagCardinality(tasks) => ~BulkGap
       /\ \A t \in Running :
             (t.op = "bulk" /\ t.pc = "saveForSale" /\ Advances(t))
                => /\ \A i \in Range(bought') : bucket(i) # t.who
                   /\ Len(forsale') = Len(forsale) + Len(t.a)
                   /\ \A i \in Range(t.a) : ImgCount(forsale', i.image) = 1]_vars

\* C10: a listing made from an item taken in with purchase price b, inbound
\* shipping s and no sell price has price b + s (the typed sell price if there
\* was one), and its buy is b + s.
C10_DefaultPrice ==
    \A l \in Range(forsale) :
       l.image \in TakenIn =>
          LET i == intake[l.image] IN
          /\ l.price = IF i.typedSell # NaN THEN i.typedSell ELSE i.buy + i.ship
          /\ l.buy = i.buy + i.ship

\* ======================= properties of Storage =======================
\* C4: a Storage.save call that returns has invoked AutoBackup.markDirty exactly
\* once, whichever store took the value; one that throws has invoked it zero times.
C4_MarkDirtyOnce ==
    (call.op = "save" /\ call.pc = "done") => marks = IF call.threw THEN 0 ELSE 1

\* C5: when localStorage holds text for the key that is not parseable JSON,
\* Storage.load returns the value IndexedDB holds for the key, and the caller's
\* fallback only if IndexedDB has none or is unavailable.
C5_ParseErrorFallsBack ==
    (call.op = "load" /\ call.pc = "done" /\ call.parseFailed)
       => /\ (idb = "open" /\ idbData[call.key] # undefined) => ret = idbData[call.key]
          /\ idbData[call.key] = undefined => ret = call.fb

\* C6: Storage.save tries localStorage first; when setItem succeeds IndexedDB is
\* left as it was, and IndexedDB is written, under the same key, only after
\* setItem threw.
C6_FastStoreFirst ==
    [][/\ idbData' # idbData
          => /\ call.op = "save" /\ call.pc = "idbSet" /\ call.lsThrew
             /\ ls' = ls
             /\ idbData' = [idbData EXCEPT ![call.key] = coalesce(call.val, arr(<<>>))]
       /\ (call.op = "save" /\ ls' # ls /\ call' # call)
          => /\ call.pc = "setItem" /\ idbData' = idbData /\ call'.pc = "hook1"
             /\ ls' = [ls EXCEPT ![call.key] = entry(stringify(coalesce(call.val, arr(<<>>))))]
       /\ (call'.pc = "idbSet" /\ call.pc # "idbSet") => call.pc = "setItem" /\ call'.lsThrew]_vars
C6_Witness ==
    /\ call.op = "save" /\ call.pc = "done" /\ call.lsThrew
    /\ call.val = arr(<<1>>)
    /\ idbData[call.key] = call.val
    /\ ls[call.key] = entry(stringify(arr(<<1, 1>>)))

\* ======================= properties of single operations =======================
\* C11: moveToListing with an id that is not in inventory ends without writing
\* inventory or for-sale and without setting the dirty flag; with an id that is
\* present it removes exactly that item from inventory and adds exactly one
\* listing, made from it, at the head of for-sale, every other record unchanged.
C11_MoveToListing ==
    [][\A t \in Running :
          /\ (t.op = "list" /\ t.pc = "saveBought" /\ Advances(t))
                => IF t.id \notin IdsOf(bought)
                   THEN /\ UNCHANGED <<bought, forsale, sold, dirty>>
                        /\ tasks' = EmptyBag
                   ELSE /\ bought' = SelectSeq(bought, LAMBDA r : r.id # t.id)
                        /\ Len(bought') = Len(bought) - 1
                        /\ UNCHANGED <<forsale, sold>>
          /\ (t.op = "list" /\ t.pc = "saveForSale" /\ Advances(t))
                => /\ Tail(forsale') = forsale
                   /\ Head(forsale') = newListing(Head(forsale').id, intake[t.it.image])
                   /\ t.it.id = t.id
                   /\ UNCHANGED <<bought, sold>>]_vars
C11_Witness ==
    /\ dirty = FALSE
    /\ \E t \in Running : t.op = "list" /\ t.pc = "saveBought" /\ t.id \notin IdsOf(bought)
    /\ bought # <<>>

\* C12: markSold with a listing id that is not in for-sale changes nothing of
\* the persisted state: for-sale, sold, the buyer registry and the last-buyer
\* pointer stay as they were, also when the buyer name was typed for this call.
C12_MarkSoldAbsentNoOp ==
    [][\A t \in Running :
          (t.op = "sold" /\ t.pc \in {"saveBuyers", "loadForSale", "saveForSale"}
             /\ Advances(t) /\ t.id \notin IdsOf(forsale))
             => UNCHANGED <<forsale, sold, buyers, lastBuyer>>]_vars

\* C13: markAllPaidForBuyer(b) sets Paid on every sold record of b (a record
\* without buyer counts as "Unknown") and leaves every other record as it was,
\* after which b's group has nothing Pending; when no record of b is Pending
\* the sold list is not written and the dirty flag is not set.
C13_MarkAllPaid ==
    [][\A t \in Running :
          (t.op = "paidall" /\ Advances(t))
             => IF hasPending(t.who)
                THEN /\ sold' = [i \in 1..Len(sold) |->
                                   IF buyerOf(sold[i]) = t.who
                                   THEN [sold[i] EXCEPT !.status = "Paid"]
                                   ELSE sold[i]]
                     /\ \A i \in Range(sold') : buyerOf(i) = t.who => statusOf(i) = "Paid"
                     /\ dirty'
                ELSE UNCHANGED <<sold, dirty>>]_vars
C13_Witness ==
    \E i, j \in Range(sold) :
       /\ trail[i.image] # <<>>
       /\ trail[i.image][Len(trail[i.image])] = "paidall"
       /\ statusOf(i) = "Paid"
       /\ buyerOf(j) # buyerOf(i)
       /\ statusOf(j) = "Pending"

\* ======================= properties of the party dialogs =======================
\* number of inventory items and listings tagged with a seller name
TaggedIn(items, listings, name) ==
    Len(SelectSeq(items, LAMBDA i : i.seller = name))
       + Len(SelectSeq(listings, LAMBDA i : i.seller = name))

\* C14: renaming seller A to B, with B non-empty and different from A, leaves no
\* inventory item and no listing tagged A; the number tagged B afterwards is the
\* number tagged A plus the number tagged B before; the registry holds B and not
\* A; the last-seller pointer becomes B if it was A. With B empty or equal to A
\* nothing is written.
C14_RenameSeller ==
    [][\A t \in Running :
          (t.op = "sellers" /\ t.pc = "rename" /\ Advances(t))
             => LET A == t.it.name
                    B == t.it.nn IN
                IF B # "" /\ B # A
                THEN /\ TaggedIn(bought', forsale', A) = 0
                     /\ TaggedIn(bought', forsale', B)
                           = TaggedIn(bought, forsale, A) + TaggedIn(bought, forsale, B)
                     /\ B \in Range(sellers') /\ A \notin Range(sellers')
                     /\ lastSeller = A => lastSeller' = B
                ELSE UNCHANGED <<sellers, buyers, bought, forsale, sold, lastSeller, dirty>>]_vars
C14_Witness ==
    \E t \in Running :
       /\ t.op = "sellers" /\ t.pc = "rename"
       /\ t.it.nn \notin {"", t.it.name}
       /\ lastSeller = t.it.name
       /\ \E i \in Range(bought) : i.seller = t.it.name
       /\ \E i \in Range(forsale) : i.seller = t.it.name
       /\ TaggedIn(bought, forsale, t.it.nn) > 0

\* C15 as stated: deleting seller N with reassignTo = Y, for every non-empty Y
\* (Y = N included), leaves no inventory item and no listing tagged N; every
\* record that was tagged N is tagged Y, the records of other sellers are
\* unchanged, and N is no longer in the registry.
C15_DeleteReassign ==
    [][\A t \in Running :
          (t.op = "sellers" /\ t.pc = "delete" /\ Advances(t) /\ t.it.nn # "")
             => LET N == t.it.name
                    Y == t.it.nn IN
                /\ TaggedIn(bought', forsale', N) = 0
                /\ bought' = [i \in 1..Len(bought) |->
                                IF bought[i].seller = N
                                THEN [bought[i] EXCEPT !.seller = Y] ELSE bought[i]]
                /\ forsale' = [i \in 1..Len(forsale) |->
                                 IF forsale[i].seller = N
                                 THEN [forsale[i] EXCEPT !.seller = Y] ELSE forsale[i]]
                /\ N \notin Range(sellers')]_vars

\* C15, for Y other than N: deleting seller N with reassignTo = Y, Y non-empty
\* and different from N, leaves no inventory item and no listing tagged N; every
\* record that was tagged N is tagged Y, the records of other sellers are
\* unchanged, and N is no longer in the registry.
C15_DeleteReassignOther ==
    [][\A t \in Running :
          (t.op = "sellers" /\ t.pc = "delete" /\ Advances(t)
             /\ t.it.nn # "" /\ t.it.nn # t.it.name)
             => LET N == t.it.name
                    Y == t.it.nn IN
                /\ TaggedIn(bought', forsale', N) = 0
                /\ bought' = [i \in 1..Len(bought) |->
                                IF bought[i].seller = N
                                THEN [bought[i] EXCEPT !.seller = Y] ELSE bought[i]]
                /\ forsale' = [i \in 1..Len(forsale) |->
                                 IF forsale[i].seller = N
                                 THEN [forsale[i] EXCEPT !.seller = Y] ELSE forsale[i]]
                /\ N \notin Range(sellers')]_vars
C15_Witness ==
    \E t \in Running :
       /\ t.op = "sellers" /\ t.pc = "delete"
       /\ t.it.nn \notin {"", t.it.name}
       /\ \E i \in Range(bought) : i.seller = t.it.name
       /\ \E i \in Range(forsale) : i.seller = t.it.name
       /\ \E i \in Range(bought) : i.seller \notin {t.it.name, t.it.nn}

\* C16 as stated: deleting buyer N (no reassignTo) removes N from the buyer
\* registry and sets the buyer field of every sold record that referenced N to
\* empty.
C16_DeleteBuyerClears ==
    [][\A t \in Running :
          (t.op = "buyers" /\ t.pc = "delete" /\ Advances(t))
             => /\ t.it.name \notin Range(buyers')
                /\ \A i \in Range(sold') : i.buyer # t.it.name]_vars

\* C16, as the handler does it: deleting buyer N removes N from the buyer
\* registry and leaves the buyer field of every sold record and every listing
\* as it was (the records keep the name).
C16_DeleteBuyerKeeps ==
    [][\A t \in Running :
          (t.op = "buyers" /\ t.pc = "delete" /\ Advances(t))
             => /\ t.it.name \notin Range(buyers')
                /\ UNCHANGED <<sold, forsale>>]_vars
C16_Witness ==
    \E t \in Running :
       /\ t.op = "buyers" /\ t.pc = "delete"
       /\ t.it.name \in Range(buyers)
       /\ \E i \in Range(sold) : i.buyer = t.it.name

C18_CashEntries ==
    [][/\ \A t \in Running :
             (t.op \in {"cashadd", "cashded", "tocash"} /\ t.pc = "check" /\ Advances(t))
                => IF /\ t.op \in {"cashadd", "cashded"}
                      /\ \/ t.it.source = ""
                         \/ parseFloat(t.it.text) = NaN
                         \/ parseFloat(t.it.text) <= 0
                   THEN UNCHANGED cash
                   ELSE \/ UNCHANGED cash /\ t.op = "tocash"
                        \/ /\ Tail(cash') = cash
                           /\ t.op = "cashadd" => Head(cash').amount > 0
                           /\ t.op = "cashded" => Head(cash').amount < 0
                           /\ t.op = "tocash" =>
                                 /\ Head(cash').amount > 0
                                 /\ \A i \in Range(sold) :
                                       buyerOf(i) = t.who => statusOf(i) = "Paid"
       /\ \A e \in Range(cash), f \in Range(cash') : e.id = f.id => e.amount = f.amount]_vars
C18_Witness ==
    \E e, f \in Range(cash) :
       /\ e.via = "cashded" /\ e.amount < 0
       /\ f.via = "tocash" /\ f.amount > 0

\* C19: in every state reached by cash add, cash deduct, cash delete, Add to
\* Cash, markSold, markPaid and markAllPaid in any order, the grand total of the
\* Cash page is the sum of the amounts of all cash entries plus the sum of the
\* prices of the sold records with status Paid; Pending records do not count.
C19_GrandTotal ==
    grand = SumAmount(cash)
               + SumPrice(SelectSeq(sold, LAMBDA i : i.status = "Paid"))
C19_Witness ==
    /\ cash # <<>> /\ SumAmount(cash) # 0
    /\ \E i, j \in Range(sold) : i.status = "Paid" /\ j.status = "Pending"
    /\ \E e \in Range(cash) : e.via = "tocash"

\* C20: for every buyer b the group's gross is the sum of the prices of b's
\* sold records, its net is the gross minus b's shipping fee (0 when b has no
\* entry), and allPaid holds exactly when every record of b is Paid; with fee 50
\* and two Paid records priced 100 and 200 the net is 250.
C20_BuyerTotals ==
    \A b \in StaleBuyers :
       LET list == SelectSeq(sold, LAMBDA i : (IF i.buyer = "" THEN "Unknown" ELSE i.buyer) = b)
           fee == IF DOMAIN shipping # {} /\ b \in DOMAIN shipping.entries
                  THEN shipping.entries[b] ELSE 0 IN
       /\ gross(b) = SumPrice(list)
       /\ net(b) = SumPrice(list) - fee
       /\ allPaid(b) <=> \A i \in Range(list) : i.status = "Paid"
       /\ (fee = 50 /\ Len(list) = 2 /\ {i.price : i \in Range(list)} = {100, 200}
              /\ \A i \in Range(list) : i.status = "Paid")
             => net(b) = 250
C20_Witness ==
    /\ DOMAIN shipping # {} /\ "X" \in DOMAIN shipping.entries
    /\ shipping.entries["X"] = 50
    /\ Len(groupOf("X")) = 2
    /\ {i.price : i \in Range(groupOf("X"))} = {100, 200}
    /\ \A i \in Range(groupOf("X")) : i.status = "Paid"
    /\ net("X") = 250

\* ======================= properties of restore =======================
\* the seven persisted collections, and the one a restore step is about
Live ==
    [bought |-> bought, forsale |-> forsale, sold |-> sold, cash |-> cash,
     sellers |-> sellers, shipping |-> shipping, buyers |-> buyers]
KeyAt(pc) ==
    CASE pc = "restoreBought" -> "bought" [] pc = "restoreForSale" -> "forsale"
      [] pc = "restoreSold" -> "sold" [] pc = "restoreCash" -> "cash"
      [] pc = "restoreSellers" -> "sellers" [] pc = "restoreShipping" -> "shipping"
      [] OTHER -> "buyers"
\* every collection the snapshot has is what the snapshot says
Applied(data) == \A k \in DOMAIN data : Live[k] = data[k]

\* C21: restoring a snapshot twice in a row leaves the seven collections as
\* they are after restoring it once: when a restore ends, every collection of
\* its snapshot holds the snapshot's value, and a restore of a snapshot whose
\* values the collections already hold changes none of the seven.
C21_RestoreIdempotent ==
    [][\A t \in Running :
          (t.op = "restore" /\ Advances(t))
             => /\ t.pc = "restoreBuyers" => Applied(t.it)'
                /\ Applied(t.it) => Live' = Live]_vars
C21_Witness ==
    /\ \E t \in Running : t.op = "restore" /\ t.pc = "restoreSold" /\ Applied(t.it)
    /\ dirty /\ runs >= 3
    /\ sold # <<>>

\* C22: a restore step overwrites its collection if and only if the snapshot
\* has the field, and then with exactly the snapshot's value; a collection the
\* snapshot does not have, the other six collections and the two last-selected
\* pointers are left as they were.
C22_RestoreFrame ==
    [][\A t \in Running :
          (t.op = "restore" /\ Advances(t))
             => LET k == KeyAt(t.pc) IN
                /\ k \in DOMAIN t.it => Live'[k] = t.it[k] /\ dirty'
                /\ k \notin DOMAIN t.it => Live'[k] = Live[k] /\ UNCHANGED dirty
                /\ \A j \in DOMAIN Live \ {k} : Live'[j] = Live[j]
                /\ UNCHANGED <<lastSeller, lastBuyer>>]_vars
C22_Witness ==
    \E t \in Running :
       /\ t.op = "restore" /\ t.pc = "restoreSellers"
       /\ "sellers" \notin DOMAIN t.it
       /\ sellers # <<>>
       /\ sold = t.it.sold /\ dirty

\* ======================= properties of Storage =======================
\* C26, for a save whose write went to the secondary store: when
\* Storage.save(key, v) has returned without throwing and IndexedDB took the
\* write after localStorage refused it, the store that Storage.load reads first
\* for key holds v (localStorage if it has an entry for key, IndexedDB
\* otherwise), so the next load returns v, whatever localStorage held before.
C26_RoundTrip ==
    [][LET v == coalesce(call.val, arr(<<>>))
           k == call.key IN
       (/\ call.op = "save" /\ call.pc # "done" /\ call'.pc = "done" /\ ~call'.threw
        /\ call'.lsThrew /\ idbData'[k] = v)
          => IF ls'[k].has THEN parse(ls'[k].text) = v ELSE idbData'[k] = v]_vars


\* ======================= properties of renaming a buyer =======================
\* C29: renaming buyer A to a new name B carries the shipping fee along: after
\* the rename the fee stored under B is the fee that was stored under A, and,
\* when no sold record was under B before, the net total of the group under B
\* is the net total the group had under A.
C29_RenameCarriesFee ==
    [][\A t \in Running :
          (/\ t.op = "buyers" /\ t.pc = "rename" /\ Advances(t)
           /\ t.it.nn \notin {"", t.it.name})
             => /\ feeOf(shipping', t.it.nn) = feeOf(shipping, t.it.name)
                /\ groupOf(t.it.nn) = <<>> => net(t.it.nn)' = net(t.it.name)]_vars


\* ======================= properties of AutoBackup =======================
\* C23: at most one auto-backup is in flight at any time, whatever the order of
\* the interval, idle, online, visibility and manual triggers: running is true
\* exactly while a backup is between its guard and its completion, and a
\* performBackup call made meanwhile builds no payload and uploads nothing.
C23_OneInFlight ==
    /\ CopiesOf(Running, "auto") <= 1
    /\ running <=> CopiesOf(Running, "auto") = 1
C23_Witness ==
    /\ running /\ dirty
    /\ \E t \in Running : At(t, "auto", "upsert")
    /\ \E t \in Running : t.op = "cashadd"

\* C24: a backup uploads only while the dirty flag is true, and an attempt whose
\* search or upsert request is not ok is swallowed: the call returns, the file
\* in Drive, lastSerialized and the dirty flag are as they were (the flag true),
\* and the guard is released, so the next trigger attempts the backup again.
C24_FailureSwallowed ==
    [][\A t \in Running, outcome \in Outcomes :
          Auto_Upsert(t, outcome)
             => /\ dirty
                /\ outcome # "saved"
                     => /\ dirty' /\ ~running'
                        /\ UNCHANGED <<lastSerialized, autoFile>>
                        /\ CopiesOf(Running, "auto")' = 0]_vars
C24_Witness ==
    /\ \E t \in Running : At(t, "auto", "upsert") /\ t.who = "manual"
    /\ autoFile # <<>> /\ lastSerialized = autoFile
    /\ dirty /\ accessToken

\* C27: a save that completes after a backup built its payload and before its
\* upload finished is not lost: when that backup completes with the stored
\* collections other than the payload it uploaded, the dirty flag is still true.
C27_SaveDuringBackup ==
    [][\A t \in Running :
          (At(t, "auto", "upsert") /\ Advances(t) /\ buildPayload # t.it) => dirty']_vars

\* C28: the dirty flag changes from true to false only in a step that uploads a
\* snapshot to Drive; a performBackup run while no token is held leaves it true.
C28_CleanOnlyAfterUpload ==
    [][(dirty /\ ~dirty')
          => \E t \in Running : At(t, "auto", "upsert") /\ Advances(t) /\ autoFile' = <<t.it>>]_vars

\* C30: the in-flight guard is always released: whenever running is true it is
\* false again later, whether the backup succeeds, fails or leaves early, and
\* with the dirty flag set a later trigger then starts a backup.
C30_GuardReleased == running ~> ~running
C30_Witness ==
    /\ running /\ ~accessToken
    /\ \E t \in Running : At(t, "auto", "upsert") /\ t.it.cash # cash


\* ======================= properties of the backup endpoint =======================
\* the fields of a body, and of the backup it carries
Shape(body) ==
    [fields |-> DOMAIN body,
     backup |-> IF "backup" \in DOMAIN body THEN DOMAIN body.backup ELSE {}]

\* C25: the two deployments are equivalent: after every sequence of POST, GET
\* and other requests their tables hold the same rows and their responses to
\* the last request have the same status and the same shape.
C25_DeploymentsAgree ==
    /\ api["vercel"].rows = api["netlify"].rows
    /\ api["vercel"].res.status = api["netlify"].res.status
    /\ Shape(api["vercel"].res.body) = Shape(api["netlify"].res.body)

====
